---- MODULE Spec2Model ----
(***************************************************************************)
(* Trip planner: the drag-and-drop scheduling engine (DragDropManager,     *)
(* scripts/pwa.js), the drop resolution and persistence glue of           *)
(* TripPlannerApp (scripts/app.js, the later revision of the class, lines  *)
(* 1091-2580), the IndexedDB store (scripts/db.js) and the calendar view   *)
(* model (CalendarManager, unnamed/part_002).                              *)
(*                                                                         *)
(* Time.  A Date object is an instant, counted in minutes since            *)
(* 2025-01-01T00:00Z.  An ISO-8601 string (toISOString) denotes the same   *)
(* instant in UTC, so activity.start / activity.end hold the instant; the  *)
(* local getters and setters of Date go through the host's UTC offset tz   *)
(* (minutes east of UTC, fixed for a run: no daylight-saving change).      *)
(* A "YYYY-MM-DD" date key is the triple <<year, month, day>>, a "HH:MM"   *)
(* time string the pair <<hours, minutes>>.                                *)
(***************************************************************************)
EXTENDS Integers, Sequences, FiniteSets, TLC

(***************************************************************************)
(* Civil calendar behind the host's Date object                            *)
(***************************************************************************)
Years == 2025..2027

IsLeap(y) == (y % 4 = 0 /\ y % 100 # 0) \/ y % 400 = 0

DaysInMonth(y, m) ==
    IF m = 2 THEN (IF IsLeap(y) THEN 29 ELSE 28)
    ELSE IF m \in {4, 6, 9, 11} THEN 30 ELSE 31

RECURSIVE DaysBeforeMonth(_, _)
DaysBeforeMonth(y, m) ==
    IF m <= 1 THEN 0 ELSE DaysBeforeMonth(y, m - 1) + DaysInMonth(y, m - 1)

DaysInYear(y) == IF IsLeap(y) THEN 366 ELSE 365

RECURSIVE DaysBeforeYear(_)
DaysBeforeYear(y) ==
    IF y <= 2025 THEN 0 ELSE DaysBeforeYear(y - 1) + DaysInYear(y - 1)

\* The first day number of each month, and the civil date of each day number.
MonthStart ==
    [y \in Years |-> [m \in 1..12 |-> DaysBeforeYear(y) + DaysBeforeMonth(y, m)]]

CivilDays == 0..(DaysBeforeYear(2027) + DaysInYear(2027) - 1)

CivilDate ==
    [n \in CivilDays |->
        LET y == CHOOSE yy \in Years :
                     DaysBeforeYear(yy) <= n /\ n < DaysBeforeYear(yy) + DaysInYear(yy)
            r == n - DaysBeforeYear(y)
            m == CHOOSE mm \in 1..12 :
                     DaysBeforeMonth(y, mm) <= r
                     /\ r < DaysBeforeMonth(y, mm) + DaysInMonth(y, mm)
        IN  <<y, m, r - DaysBeforeMonth(y, m) + 1>>]

\* Day number of year y, month index m0 (0-based, may overflow either way as
\* in new Date(y, m0, d) and setMonth) and day of month d (may overflow).
CivilToDay(y, m0, d) == MonthStart[y + (m0 \div 12)][(m0 % 12) + 1] + d - 1

\* <<year, month (1-based), day of month>> of a day number.
DayToCivil(n) == CivilDate[n]

(***************************************************************************)
(* The Date API as the code uses it; z is the host's UTC offset            *)
(***************************************************************************)
LocalDay(t, z)    == (t + z) \div 1440
LocalTimeOfDay(t, z) == (t + z) % 1440
getFullYear(t, z) == DayToCivil(LocalDay(t, z))[1]
getMonth(t, z)    == DayToCivil(LocalDay(t, z))[2] - 1
getDate(t, z)     == DayToCivil(LocalDay(t, z))[3]
getHours(t, z)    == LocalTimeOfDay(t, z) \div 60
getMinutes(t, z)  == LocalTimeOfDay(t, z) % 60
\* 2025-01-01 is a Wednesday (getDay() = 3).
getDay(t, z)      == (LocalDay(t, z) + 3) % 7

\* new Date(year, monthIndex, day): local midnight.
NewDate(y, m0, d, z) == CivilToDay(y, m0, d) * 1440 - z

\* date.setHours(h, mi, 0, 0)
setHours(t, h, mi, z) == LocalDay(t, z) * 1440 + h * 60 + mi - z

\* date.setDate(d)
setDate(t, d, z) ==
    CivilToDay(getFullYear(t, z), getMonth(t, z), d) * 1440 + LocalTimeOfDay(t, z) - z

\* date.setMonth(m0)
setMonth(t, m0, z) ==
    CivilToDay(getFullYear(t, z), m0, getDate(t, z)) * 1440 + LocalTimeOfDay(t, z) - z

\* date.toISOString().split('T')[0]: the UTC calendar date of the instant.
IsoDatePart(t) == DayToCivil(t \div 1440)

\* parseDateFromStorage as new Date(dateString): midnight UTC of the key.
parseDateFromStorageAsUtc(key, z) == CivilToDay(key[1], key[2] - 1, key[3]) * 1440

(***************************************************************************)
(* CalendarManager: pure helpers                                           *)
(***************************************************************************)
formatDateForStorage(t, z) == <<getFullYear(t, z), getMonth(t, z) + 1, getDate(t, z)>>

parseDateFromStorage(key, z) == NewDate(key[1], key[2] - 1, key[3], z)

isSameDate(t1, t2, z) ==
    /\ getFullYear(t1, z) = getFullYear(t2, z)
    /\ getMonth(t1, z) = getMonth(t2, z)
    /\ getDate(t1, z) = getDate(t2, z)

getWeekStart(t, z) == setHours(setDate(t, getDate(t, z) - getDay(t, z), z), 0, 0, z)

\* 23:59:59.999 of the sixth day after the week start; at minute granularity
\* the last minute of that day.
getWeekEnd(t, z) ==
    LET s == getWeekStart(t, z)
    IN  setHours(setDate(s, getDate(s, z) + 6, z), 23, 59, z)

\* generateTimeSlots: hours 6..24, the time string of hour 24 being "00:00".
generateTimeSlots ==
    [i \in 1..19 |->
        LET hour == i + 5
        IN  [time |-> IF hour = 24 THEN <<0, 0>> ELSE <<hour, 0>>,
             hour |-> IF hour = 24 THEN 0 ELSE hour]]

(***************************************************************************)
(* Values                                                                  *)
(***************************************************************************)
\* null for activity.start / activity.end.
Null == -1

Ids == {"a1", "a2"}

\* Ids given to the activities created in a run (generateId).
NewIds == {"a1"}

\* No activity: a missing array element / store record, or undefined.
NoId == "none"

\* An element without data-activity-id: a child of an activity element
\* (.activity-title, .activity-meta, the time span of a calendar activity).
ChildEl == "child"

NoAct == [start |-> Null, end |-> Null, source |-> "absent"]

NoEdit == [id |-> NoId, start |-> Null, end |-> Null, source |-> "absent"]

\* No call of resolveTimeConflict was made.
NoCall == [id |-> NoId, start |-> Null, end |-> Null]

NoDate == <<0, 0, 0>>

NoTime == <<-1, -1>>

Views == {"day", "week", "month"}

\* UTC offsets of the hosts, in minutes east of UTC.
Offsets == {-720, -300, 0, 120, 840}

\* Hosts the model runs on: UTC offset (minutes east of UTC) and the time of
\* day, in local minutes, at which the page was opened on 2025-06-04.
Hosts == {<<-300, 1410>>, <<0, 720>>, <<120, 30>>}

\* new Date() at construction, for a host.
Today(h) == NewDate(2025, 5, 4, h[1]) + h[2]

\* The user moves at most this many steps (days, weeks or months, by the
\* displayed view) away from the opening day.
MaxNavSteps == 1

\* Requests the page has in flight in IndexedDB at most.
MaxPending == 1

\* Operations the user begins in a run: view changes, modal openings, file
\* imports and gestures.
MaxOps == 2

\* Grid slots (indexes into generateTimeSlots) the user drops on: 09:00 and
\* the final midnight slot.
DropSlotIdx == {4, 19}

\* Which of the displayed days (week columns, month cells) the user drops on.
DropDayIdx == {3}

\* Values of now.getHours() at the time of a whole-day drop.
NowHours == {8, 9, 20, 21}

\* What the user types in the datetime-local fields of the activity form
\* (minutes of 2025-06-04, local), and in the start/end columns of a CSV row.
FormStarts == {540}
FormEnds == {660}

VARIABLES
    tz,                     \* host UTC offset
    isMobile,               \* CalendarManager.isMobile: the window is at most 768 px wide
    today,                  \* new Date() of the host (kept constant)
    currentView,            \* CalendarManager.currentView / app.currentView
    currentDate,            \* CalendarManager.currentDate
    activities,             \* app.activities, by id
    bankActivities,         \* app.bankActivities (ids); also the bank's DOM
    store,                  \* IndexedDB object store 'activities', by id
    calendarDom,            \* ids with a .calendar-activity/.month-activity element
    bankDropListeners,      \* drop listeners on the container #bank-activities
    style,                  \* style.top and style.height of the .calendar-activity elements
    dbQueue,                \* IndexedDB requests in flight, oldest first
    toasts,                 \* showToast calls of the last step
    modalOpen,              \* the activity modal is shown
    currentEditingActivity, \* app.currentEditingActivity
    isDragging,             \* DragDropManager.isDragging
    draggedElement,         \* DragDropManager.draggedElement
    draggedActivity,        \* DragDropManager.draggedActivity (its id)
    touchStartPos,          \* DragDropManager.touchStartPos
    dragPreview,            \* this.dragPreview is a node attached to the body
    highlight,              \* elements carrying the class drag-over
    pointer,                \* platform: "none", "touch" (a finger is down), "native"
    touchTarget,            \* platform: the element the touch started on
    dataTransfer,           \* platform: text/plain of the drag data store
    hover,                  \* platform: the element a native drag is over
    orphanPreview,          \* a preview node no field refers to is left in the body
    touchPos,               \* platform: where the finger of the touch is
    console,                \* what the handlers of DragDropManager logged last
    clockHours,             \* platform: new Date().getHours() as last read by a drop
    newActivity,            \* resolveTimeConflict: the activity object it was given
    conflictingActivities,  \* resolveTimeConflict: the activities it was given
    attempts,               \* resolveTimeConflict: attempts
    conflicts,              \* resolveTimeConflict: conflicts of the last iteration
    resolving,              \* resolveTimeConflict: "idle", "loop", "returned", "thrown"
    calledWith,             \* the fields of newActivity when the call was made
    layoutInput,            \* calculateActivityPositions: the activities it was given
    positioned,             \* calculateActivityPositions: positioned
    layoutIndex,            \* calculateActivityPositions: iterations of forEach done
    ops                     \* operations the user has begun so far

appVars == <<currentView, currentDate, activities, bankActivities, store,
             calendarDom, bankDropListeners, style, dbQueue, modalOpen, currentEditingActivity>>

dndVars == <<isDragging, draggedElement, draggedActivity, touchStartPos,
             dragPreview, pointer, touchTarget, dataTransfer, hover, orphanPreview,
             touchPos>>

hostVars == <<tz, isMobile, today>>

resolverVars == <<newActivity, conflictingActivities, attempts, conflicts,
                  resolving, calledWith>>

layoutVars == <<layoutInput, positioned, layoutIndex>>

vars == <<hostVars, clockHours, resolverVars, layoutVars, toasts, console,
          highlight, appVars, dndVars, ops>>

Toast(msg, kind) == [msg |-> msg, kind |-> kind]

(***************************************************************************)
(* Rendering                                                               *)
(***************************************************************************)
\* No element with the class drop-zone (findDropZone returns null).
NoZone == [kind |-> "none", date |-> NoDate, time |-> NoTime]

BankZone == [kind |-> "bank", date |-> NoDate, time |-> NoTime]

SlotZone(key, time) == [kind |-> "slot", date |-> key, time |-> time]

CellZone(key) == [kind |-> "cell", date |-> key, time |-> NoTime]

\* .week-day-column: carries the class drop-zone and data-date, but no drop
\* handler is registered on it (setupWeekDropZones takes the .time-slot only).
ColumnZone(key) == [kind |-> "column", date |-> key, time |-> NoTime]

\* renderWeekView: the i-th day of the displayed week (local midnight).
WeekDay(d, i, z) ==
    LET weekStart == getWeekStart(d, z)
    IN  setDate(weekStart, getDate(weekStart, z) + i, z)

\* renderWeekGrid: the data-date of the i-th column and of its time slots.
WeekDateKey(d, i, z) == IsoDatePart(WeekDay(d, i, z))

\* renderMonthView: first and last instant of the grid of every month, by UTC
\* offset, year and month index.
MonthGrids ==
    [z \in Offsets |-> [y \in Years \ {2027} |-> [m0 \in 0..11 |->
        [start |-> getWeekStart(NewDate(y, m0, 1, z), z),
         end   |-> getWeekEnd(NewDate(y, m0 + 1, 0, z), z)]]]]

\* renderMonthView: first and last instant of the month grid.
MonthGridStart(d, z) == MonthGrids[z][getFullYear(d, z)][getMonth(d, z)].start
MonthGridEnd(d, z) == MonthGrids[z][getFullYear(d, z)][getMonth(d, z)].end

\* renderMonthView: the i-th cell of the grid (current.setDate(getDate() + 1)).
MonthCell(d, i, z) ==
    LET gridStart == MonthGridStart(d, z)
    IN  setDate(gridStart, getDate(gridStart, z) + i, z)

\* renderTimeSlots(.., true) / renderMonthView: data-date of a day/month target.
DayDateKey(d, z) == formatDateForStorage(d, z)
MonthDateKey(d, i, z) == formatDateForStorage(MonthCell(d, i, z), z)

\* The local days the view displays a column or a cell for.
DisplayedDays(view, d, z) ==
    IF view = "day" THEN {d}
    ELSE IF view = "week" THEN {WeekDay(d, i, z) : i \in 0..6}
    ELSE {MonthCell(d, i, z) : i \in {j \in 0..41 : MonthCell(d, j, z) <= MonthGridEnd(d, z)}}

\* The data-date the view gives the drop targets of a displayed day.
TargetDateKey(view, day, z) ==
    IF view = "week" THEN IsoDatePart(day) ELSE formatDateForStorage(day, z)

\* setupCalendarDropZones: whether zone is one of the elements the view
\* registered a drop handler on (.time-slot in day and week view, .month-day
\* in month view).
IsCalendarZone(zone, view, d, z) ==
    /\ zone.kind = (IF view = "month" THEN "cell" ELSE "slot")
    /\ \E day \in DisplayedDays(view, d, z) : zone.date = TargetDateKey(view, day, z)
    /\ \/ view = "month" /\ zone.time = NoTime
       \/ view # "month" /\ \E s \in DOMAIN generateTimeSlots : zone.time = generateTimeSlots[s].time

\* The local date <<y, m, d>> of the day the view displays the zone for.
DisplayedFor(zone, view, d, z) ==
    LET day == CHOOSE x \in DisplayedDays(view, d, z) : zone.date = TargetDateKey(view, x, z)
    IN  <<getFullYear(day, z), getMonth(day, z) + 1, getDate(day, z)>>

\* The calendar drop zones the user may move over and release on.
DropTargets(view, d, z) ==
    IF view = "day" THEN
        {SlotZone(DayDateKey(d, z), generateTimeSlots[s].time) : s \in DropSlotIdx}
    ELSE IF view = "week" THEN
        {SlotZone(WeekDateKey(d, i, z), generateTimeSlots[s].time) :
            i \in DropDayIdx, s \in DropSlotIdx}
    ELSE
        {CellZone(MonthDateKey(d, i, z)) :
            i \in {j \in DropDayIdx : MonthCell(d, j, z) <= MonthGridEnd(d, z)}}

\* getActivitiesForDate(activities, date) has activity a.
OnDate(a, d, z) == a.start # Null /\ isSameDate(a.start, d, z)

\* calendar.render: whether activity a gets an element in the displayed view.
Rendered(a, view, d, z) ==
    /\ a.source = "calendar"
    /\ IF view = "day" THEN OnDate(a, d, z) /\ a.end # Null
       ELSE IF view = "week" THEN
           /\ a.end # Null
           /\ \E i \in 0..6 : OnDate(a, WeekDay(d, i, z), z)
       ELSE
           /\ a.start # Null
           /\ MonthGridStart(d, z) <= a.start
           /\ a.start <= MonthGridEnd(d, z)

\* renderCalendar: the activity elements of the calendar after the render.
renderCalendar(acts, view, d, z) == {i \in Ids : Rendered(acts[i], view, d, z)}

\* Math.max
Max(a, b) == IF a >= b THEN a ELSE b

\* An activity without a positioned element.
NoStyle == [top |-> Null, height |-> Null]

\* positionDayActivity: style.top and style.height, in sixtieths of a pixel.
positionDayActivity(a, mobile, z) ==
    LET startMinutes == getHours(a.start, z) * 60 + getMinutes(a.start, z)
        endMinutes   == getHours(a.end, z) * 60 + getMinutes(a.end, z)
        duration     == endMinutes - startMinutes
        startOffset  == Max(0, startMinutes - 360)
        slotHeight   == IF mobile THEN 50 ELSE 60
    IN  [top |-> startOffset * slotHeight, height |-> Max(30 * 60, duration * slotHeight)]

\* positionWeekActivity: style.top and style.height, in sixtieths of a pixel.
positionWeekActivity(a, z) ==
    LET startMinutes == getHours(a.start, z) * 60 + getMinutes(a.start, z)
        duration     == a.end - a.start
        startOffset  == Max(0, startMinutes - 360)
    IN  [top |-> startOffset * 60, height |-> Max(20 * 60, duration * 60)]

\* renderDayActivities / renderWeekGrid: the position of each element.
renderStyles(acts, view, d, z, mobile) ==
    [i \in Ids |->
        IF ~Rendered(acts[i], view, d, z) THEN NoStyle
        ELSE IF view = "day" THEN positionDayActivity(acts[i], mobile, z)
        ELSE IF view = "week" THEN positionWeekActivity(acts[i], z)
        ELSE NoStyle]

\* loadTripActivities / handleActivitySubmit: activities.filter(source === 'bank')
BankFilter(acts) == {i \in Ids : acts[i].source = "bank"}

\* Rendering replaces the calendar's elements (zones and activity elements)
\* and the bank's items: only the bank container keeps its drag-over class.
AfterRender(hl) == hl \cap {BankZone}

(***************************************************************************)
(* TripPlannerApp: the schedule an operation gives an activity             *)
(***************************************************************************)
\* moveActivityToBank without line 2516: the end of the activity stays.
moveActivityToBankKeepsEnd(a) == [a EXCEPT !.source = "bank", !.start = Null]

\* moveActivityToBank, lines 2514-2516.
moveActivityToBank(a) == [a EXCEPT !.source = "bank", !.start = Null, !.end = Null]

\* moveActivityToCalendar keeping the duration a scheduled activity had,
\* instead of the hour of lines 2544 and 2558.
moveActivityToCalendarKeepsDuration(a, date, time, nowHours, z) ==
    LET hours     == IF time # NoTime THEN time[1]
                     ELSE IF nowHours >= 9 /\ nowHours <= 20 THEN nowHours ELSE 9
        minutes   == IF time # NoTime THEN time[2] ELSE 0
        startDate == setHours(parseDateFromStorage(date, z), hours, minutes, z)
        duration  == IF a.start # Null /\ a.end # Null THEN a.end - a.start ELSE 60
    IN  [a EXCEPT !.source = "calendar", !.start = startDate, !.end = startDate + duration]

\* moveActivityToCalendar with the window of line 2554 closed before 20.
moveActivityToCalendarBefore20(a, date, time, nowHours, z) ==
    IF time # NoTime THEN
        LET startDate == setHours(parseDateFromStorage(date, z), time[1], time[2], z)
        IN  [a EXCEPT !.source = "calendar", !.start = startDate,
                      !.end = setHours(startDate, time[1] + 1, time[2], z)]
    ELSE
        LET defaultHour == IF nowHours >= 9 /\ nowHours < 20 THEN nowHours ELSE 9
            startDate   == setHours(parseDateFromStorage(date, z), defaultHour, 0, z)
        IN  [a EXCEPT !.source = "calendar", !.start = startDate,
                      !.end = setHours(startDate, defaultHour + 1, 0, z)]

\* moveActivityToCalendar with 9 AM for every target without a time.
moveActivityToCalendarFixedHour(a, date, time, nowHours, z) ==
    LET hours     == IF time # NoTime THEN time[1] ELSE 9
        minutes   == IF time # NoTime THEN time[2] ELSE 0
        startDate == setHours(parseDateFromStorage(date, z), hours, minutes, z)
    IN  [a EXCEPT !.source = "calendar", !.start = startDate,
                  !.end = setHours(startDate, hours + 1, minutes, z)]

\* moveActivityToCalendar, lines 2534-2562: date is the target's data-date,
\* time its data-time (NoTime when the target has none), nowHours the value of
\* new Date().getHours().
moveActivityToCalendar(a, date, time, nowHours, z) ==
    IF time # NoTime THEN
        LET hours     == time[1]
            minutes   == time[2]
            startDate == setHours(parseDateFromStorage(date, z), hours, minutes, z)
            endDate   == setHours(startDate, hours + 1, minutes, z)
        IN  [a EXCEPT !.source = "calendar", !.start = startDate, !.end = endDate]
    ELSE
        LET defaultHour == IF nowHours >= 9 /\ nowHours <= 20 THEN nowHours ELSE 9
            startDate   == setHours(parseDateFromStorage(date, z), defaultHour, 0, z)
            endDate     == setHours(startDate, defaultHour + 1, 0, z)
        IN  [a EXCEPT !.source = "calendar", !.start = startDate, !.end = endDate]

\* A datetime-local field of the activity form: empty, "YYYY-MM-DDTHH:MM"
\* (16 characters, parsed as local time) or a value with seconds (19
\* characters), which handleActivitySubmit ignores (lines 2068-2083).
FormField(kind, minutes, z) ==
    IF kind = "minutes" THEN NewDate(2025, 5, 4, z) + minutes ELSE Null

FieldKinds == {"empty", "minutes", "seconds"}

\* handleActivitySubmit, lines 2051-2104: the activity built from the form;
\* editing is app.currentEditingActivity (NoEdit for a new activity).
handleActivitySubmit(start, end, editing) ==
    LET hasDateTime == start # Null /\ end # Null
        hadDateTime == editing.start # Null /\ editing.end # Null
    IN  [start  |-> start,
         end    |-> end,
         source |-> IF editing # NoEdit THEN
                        IF hadDateTime /\ ~hasDateTime THEN "bank"
                        ELSE IF ~hadDateTime /\ hasDateTime THEN "calendar"
                        ELSE editing.source
                    ELSE IF hasDateTime THEN "calendar" ELSE "bank"]

\* importCSV, lines 2264-2314: the activity of one CSV row; a start/end column
\* is taken when it has a value, the source stays 'bank'.
importCSV(kindS, kindE, s, e, z) ==
    [start  |-> IF kindS = "empty" THEN Null ELSE NewDate(2025, 5, 4, z) + s,
     end    |-> IF kindE = "empty" THEN Null ELSE NewDate(2025, 5, 4, z) + e,
     source |-> "bank"]

(***************************************************************************)
(* IndexedDB requests in flight                                            *)
(***************************************************************************)
Request(req, h, id, val, zone) ==
    [req |-> req, h |-> h, id |-> id, val |-> val, zone |-> zone]

\* store.put(activity) of db.saveActivity: the record is cloned when the
\* request is made.
PutRequest(h, id, val, zone) == Request("put", h, id, val, zone)

\* index.getAll(tripId) of db.getActivitiesByTrip.
GetAllRequest(h, id, zone) == Request("getAll", h, id, NoAct, zone)

\* store.delete(activityId) of db.deleteActivity.
DeleteRequest(id) == Request("delete", "delete", id, NoAct, BankZone)

\* Ids some record, array element or request in flight already uses.
UsedIds ==
    {i \in Ids : store[i] # NoAct \/ activities[i] # NoAct}
        \cup {dbQueue[k].id : k \in 1..Len(dbQueue)}

CanRequest == Len(dbQueue) < MaxPending

\* The user begins one more operation.
BeginOp == ops < MaxOps /\ ops' = ops + 1

(***************************************************************************)
(* View management                                                         *)
(***************************************************************************)
\* navigateNext / navigatePrevious with a month taken as 30 days.
navigateMonthAsDays(view, d, dir, z) ==
    IF view = "day" THEN setDate(d, getDate(d, z) + dir, z)
    ELSE IF view = "week" THEN setDate(d, getDate(d, z) + 7 * dir, z)
    ELSE setDate(d, getDate(d, z) + 30 * dir, z)

\* CalendarManager.navigateNext / navigatePrevious; dir is +1 or -1.
navigate(view, d, dir, z) ==
    IF view = "day" THEN setDate(d, getDate(d, z) + dir, z)
    ELSE IF view = "week" THEN setDate(d, getDate(d, z) + 7 * dir, z)
    ELSE setMonth(d, getMonth(d, z) + dir, z)

\* The user stays within MaxNavSteps steps of the displayed view (days,
\* weeks or months of at most 31 days) of the opening day.
InNavWindow(d) ==
    LET step == IF currentView = "day" THEN 1 ELSE IF currentView = "week" THEN 7 ELSE 31
    IN  /\ LocalDay(d, tz) - LocalDay(today, tz) <= MaxNavSteps * step
        /\ LocalDay(today, tz) - LocalDay(d, tz) <= MaxNavSteps * step

\* cleanupDropZones leaving the drop listeners in place.
cleanupDropZonesKeeps(count) == count

\* cleanupDropZones for an element that stays in the document and has count
\* drop listeners: removeDragListeners removes the one element._dropHandler
\* remembers (lines 952-955).
cleanupDropZones(count) == IF count > 0 THEN count - 1 ELSE 0

\* setupDropZone adds one drop listener (line 914).
setupDropZone(count) == count + 1

\* The part of renderCalendar every caller shares: the calendar's elements are
\* made anew, and setupCalendarDropZones cleans up and sets up the bank
\* container, which stays in the document.
Render(acts, view, d) ==
    /\ calendarDom' = renderCalendar(acts, view, d, tz)
    /\ highlight' = AfterRender(highlight)
    /\ bankDropListeners' = setupDropZone(cleanupDropZones(bankDropListeners))
    /\ style' = renderStyles(acts, view, d, tz, isMobile)

SwitchView ==
    \E v \in Views :
        /\ ~modalOpen
        /\ pointer = "none"
        /\ currentView' = v
        /\ Render(activities, v, currentDate)
        /\ BeginOp
        /\ toasts' = <<>>
        /\ console' = <<>>
        /\ UNCHANGED <<hostVars, layoutVars, resolverVars, clockHours, currentDate, activities, bankActivities, store,
                       dbQueue, modalOpen, currentEditingActivity, dndVars>>

Navigate(dir) ==
    LET d == navigate(currentView, currentDate, dir, tz)
    IN  /\ ~modalOpen
        /\ pointer = "none"
        /\ InNavWindow(d)
        /\ currentDate' = d
        /\ Render(activities, currentView, d)
        /\ BeginOp
        /\ toasts' = <<>>
        /\ console' = <<>>
        /\ UNCHANGED <<hostVars, layoutVars, resolverVars, clockHours, currentView, activities, bankActivities, store,
                       dbQueue, modalOpen, currentEditingActivity, dndVars>>

NavigatePrevious == Navigate(-1)

NavigateNext == Navigate(1)

(***************************************************************************)
(* Activity modal: create, edit, delete                                    *)
(***************************************************************************)
\* Click on add-activity-btn (i = NoId) or on an activity element.
ShowActivityModal ==
    \E i \in (bankActivities \cup calendarDom) \cup {NoId} :
        /\ ~modalOpen
        /\ pointer = "none"
        /\ modalOpen' = TRUE
        /\ currentEditingActivity' =
              IF i = NoId THEN NoEdit
              ELSE [id |-> i, start |-> activities[i].start,
                    end |-> activities[i].end, source |-> activities[i].source]
        /\ BeginOp
        /\ toasts' = <<>>
        /\ console' = <<>>
        /\ UNCHANGED <<hostVars, layoutVars, resolverVars, clockHours, highlight, currentView, currentDate, activities,
                       bankActivities, store, calendarDom, bankDropListeners, style, dbQueue, dndVars>>

HideActivityModal ==
    /\ modalOpen
    /\ dbQueue = <<>>
    /\ modalOpen' = FALSE
    /\ currentEditingActivity' = NoEdit
    /\ UNCHANGED ops
    /\ toasts' = <<>>
    /\ console' = <<>>
    /\ UNCHANGED <<hostVars, layoutVars, resolverVars, clockHours, highlight, currentView, currentDate, activities,
                   bankActivities, store, calendarDom, bankDropListeners, style, dbQueue, dndVars>>

\* Submit of the activity form: handleActivitySubmit up to its await.
HandleActivitySubmit ==
    \E ks \in FieldKinds, ke \in FieldKinds, s \in FormStarts, e \in FormEnds :
      \E i \in (IF currentEditingActivity = NoEdit THEN NewIds \ UsedIds
                ELSE {currentEditingActivity.id}) :
        /\ modalOpen
        /\ CanRequest
        /\ dbQueue' = Append(dbQueue,
              PutRequest("submit", i,
                  handleActivitySubmit(FormField(ks, s, tz), FormField(ke, e, tz),
                                       currentEditingActivity),
                  BankZone))
        /\ UNCHANGED ops
        /\ toasts' = <<>>
        /\ console' = <<>>
        /\ UNCHANGED <<hostVars, layoutVars, resolverVars, clockHours, highlight, currentView, currentDate, activities,
                       bankActivities, store, calendarDom, bankDropListeners, style, modalOpen,
                       currentEditingActivity, dndVars>>

\* delete-activity-btn, confirmed: deleteCurrentActivity up to its await.
DeleteCurrentActivity ==
    /\ modalOpen
    /\ currentEditingActivity # NoEdit
    /\ CanRequest
    /\ dbQueue' = Append(dbQueue, DeleteRequest(currentEditingActivity.id))
    /\ UNCHANGED ops
    /\ toasts' = <<>>
    /\ console' = <<>>
    /\ UNCHANGED <<hostVars, layoutVars, resolverVars, clockHours, highlight, currentView, currentDate, activities,
                   bankActivities, store, calendarDom, bankDropListeners, style, modalOpen,
                   currentEditingActivity, dndVars>>

\* handleFileImport of a CSV file with one data row that has a title:
\* importCSV up to the await of its saveActivity.
HandleFileImport ==
    \E ks \in {"empty", "minutes"}, ke \in {"empty", "minutes"},
       s \in FormStarts, e \in FormEnds, i \in NewIds \ UsedIds :
        /\ ~modalOpen
        /\ pointer = "none"
        /\ CanRequest
        /\ dbQueue' = Append(dbQueue,
              PutRequest("import", i, importCSV(ks, ke, s, e, tz), BankZone))
        /\ BeginOp
        /\ toasts' = <<>>
        /\ console' = <<>>
        /\ UNCHANGED <<hostVars, layoutVars, resolverVars, clockHours, highlight, currentView, currentDate, activities,
                       bankActivities, store, calendarDom, bankDropListeners, style, modalOpen,
                       currentEditingActivity, dndVars>>

(***************************************************************************)
(* Completion of the oldest IndexedDB request, and the continuation of the *)
(* handler awaiting it                                                     *)
(***************************************************************************)
Head1 == dbQueue[1]

IsDrop(r) == r.h \in {"toCalendar", "toBank"}

\* The success toast of the drop handler (handleCalendarDrop line 1204,
\* handleBankDrop line 1224).
DropSuccessToast(h) ==
    IF h = "toCalendar" THEN Toast("Activity scheduled", "success")
    ELSE Toast("Activity moved to bank", "success")

\* The toasts between the end of loadTripActivities and the end of the drop
\* handler: moveActivityToCalendar line 2574, then the handler's own.
AfterLoadToasts(h) ==
    IF h = "toCalendar" THEN
        <<Toast("scheduled for", "success"), DropSuccessToast(h)>>
    ELSE IF h = "toBank" THEN <<DropSuccessToast(h)>>
    ELSE <<>>

\* moveActivityToBank / moveActivityToCalendar: saveActivity resolved, and
\* loadTripActivities asks the store for the trip's activities.
DropSaveResolved ==
    /\ dbQueue # <<>>
    /\ Head1.req = "put" /\ IsDrop(Head1)
    /\ store' = [store EXCEPT ![Head1.id] = Head1.val]
    /\ dbQueue' = Append(Tail(dbQueue), GetAllRequest(Head1.h, Head1.id, Head1.zone))
    /\ UNCHANGED ops
    /\ toasts' = <<>>
    /\ console' = <<>>
    /\ UNCHANGED <<hostVars, layoutVars, resolverVars, clockHours, highlight, currentView, currentDate, activities,
                   bankActivities, calendarDom, bankDropListeners, style, modalOpen, currentEditingActivity,
                   dndVars>>

\* saveActivity rejected: the catch of moveActivityTo* (lines 2522-2525,
\* 2576-2579) reports it and returns normally, so the drop handler goes on
\* with its success toast and removes drag-over from its drop target
\* (handleBankDrop reads e.currentTarget after the await, when it is null).
DropSaveRejected ==
    /\ dbQueue # <<>>
    /\ Head1.req = "put" /\ IsDrop(Head1)
    /\ dbQueue' = Tail(dbQueue)
    /\ UNCHANGED ops
    /\ toasts' = <<Toast("Failed to move activity", "error"), DropSuccessToast(Head1.h)>>
    /\ console' = <<>>
    /\ highlight' = IF Head1.h = "toCalendar" THEN highlight \ {Head1.zone} ELSE highlight
    /\ UNCHANGED <<hostVars, layoutVars, resolverVars, clockHours, currentView, currentDate, activities, bankActivities,
                   store, calendarDom, bankDropListeners, style, modalOpen, currentEditingActivity, dndVars>>

\* loadTripActivities: getActivitiesByTrip resolved (lines 1357-1360), then the
\* caller's renderCalendar and toasts.
LoadResolved ==
    /\ dbQueue # <<>>
    /\ Head1.req = "getAll"
    /\ dbQueue' = Tail(dbQueue)
    /\ activities' = store
    /\ bankActivities' = BankFilter(store)
    /\ Render(store, currentView, currentDate)
    /\ UNCHANGED ops
    /\ toasts' = AfterLoadToasts(Head1.h)
    /\ console' = <<>>
    /\ UNCHANGED <<hostVars, layoutVars, resolverVars, clockHours, currentView, currentDate, store, modalOpen,
                   currentEditingActivity, dndVars>>

\* loadTripActivities: getActivitiesByTrip rejected (lines 1361-1364); the
\* caller renders the calendar from the activities it has.
LoadRejected ==
    /\ dbQueue # <<>>
    /\ Head1.req = "getAll"
    /\ dbQueue' = Tail(dbQueue)
    /\ Render(activities, currentView, currentDate)
    /\ UNCHANGED ops
    /\ toasts' = <<Toast("Failed to load activities", "error")>> \o AfterLoadToasts(Head1.h)
    /\ console' = <<>>
    /\ UNCHANGED <<hostVars, layoutVars, resolverVars, clockHours, currentView, currentDate, activities, bankActivities,
                   store, modalOpen, currentEditingActivity, dndVars>>

\* handleActivitySubmit after its await, lines 2112-2132.
SubmitSaved ==
    /\ dbQueue # <<>>
    /\ Head1.req = "put" /\ Head1.h = "submit"
    /\ dbQueue' = Tail(dbQueue)
    /\ store' = [store EXCEPT ![Head1.id] = Head1.val]
    /\ LET acts == [activities EXCEPT ![Head1.id] = Head1.val]
       IN  /\ activities' = acts
           /\ bankActivities' = BankFilter(acts)
           /\ Render(acts, currentView, currentDate)
    /\ modalOpen' = FALSE
    /\ currentEditingActivity' = NoEdit
    /\ UNCHANGED ops
    /\ toasts' = <<Toast("Activity saved successfully", "success")>>
    /\ console' = <<>>
    /\ UNCHANGED <<hostVars, layoutVars, resolverVars, clockHours, currentView, currentDate, dndVars>>

\* handleActivitySubmit, lines 2134-2137.
SubmitRejected ==
    /\ dbQueue # <<>>
    /\ Head1.req = "put" /\ Head1.h = "submit"
    /\ dbQueue' = Tail(dbQueue)
    /\ UNCHANGED ops
    /\ toasts' = <<Toast("Failed to save activity", "error")>>
    /\ console' = <<>>
    /\ UNCHANGED <<hostVars, layoutVars, resolverVars, clockHours, highlight, currentView, currentDate, activities,
                   bankActivities, store, calendarDom, bankDropListeners, style, modalOpen,
                   currentEditingActivity, dndVars>>

\* handleFileImport, lines 2203-2204: the row is saved, the import reported,
\* and loadTripActivities asks the store.
ImportSaved ==
    /\ dbQueue # <<>>
    /\ Head1.req = "put" /\ Head1.h = "import"
    /\ store' = [store EXCEPT ![Head1.id] = Head1.val]
    /\ dbQueue' = Append(Tail(dbQueue), GetAllRequest("import", Head1.id, BankZone))
    /\ UNCHANGED ops
    /\ toasts' = <<Toast("Import completed", "success")>>
    /\ console' = <<>>
    /\ UNCHANGED <<hostVars, layoutVars, resolverVars, clockHours, highlight, currentView, currentDate, activities,
                   bankActivities, calendarDom, bankDropListeners, style, modalOpen, currentEditingActivity,
                   dndVars>>

\* handleFileImport, lines 2207-2210.
ImportRejected ==
    /\ dbQueue # <<>>
    /\ Head1.req = "put" /\ Head1.h = "import"
    /\ dbQueue' = Tail(dbQueue)
    /\ UNCHANGED ops
    /\ toasts' = <<Toast("Import failed", "error")>>
    /\ console' = <<>>
    /\ UNCHANGED <<hostVars, layoutVars, resolverVars, clockHours, highlight, currentView, currentDate, activities,
                   bankActivities, store, calendarDom, bankDropListeners, style, modalOpen,
                   currentEditingActivity, dndVars>>

\* deleteCurrentActivity after its await, lines 2150-2159.
DeleteResolved ==
    /\ dbQueue # <<>>
    /\ Head1.req = "delete"
    /\ dbQueue' = Tail(dbQueue)
    /\ store' = [store EXCEPT ![Head1.id] = NoAct]
    /\ LET acts == [activities EXCEPT ![currentEditingActivity.id] = NoAct]
       IN  /\ activities' = acts
           /\ bankActivities' = bankActivities \ {currentEditingActivity.id}
           /\ Render(acts, currentView, currentDate)
    /\ modalOpen' = FALSE
    /\ currentEditingActivity' = NoEdit
    /\ UNCHANGED ops
    /\ toasts' = <<Toast("Activity deleted", "success")>>
    /\ console' = <<>>
    /\ UNCHANGED <<hostVars, layoutVars, resolverVars, clockHours, currentView, currentDate, dndVars>>

\* deleteCurrentActivity, lines 2161-2164.
DeleteRejected ==
    /\ dbQueue # <<>>
    /\ Head1.req = "delete"
    /\ dbQueue' = Tail(dbQueue)
    /\ UNCHANGED ops
    /\ toasts' = <<Toast("Failed to delete activity", "error")>>
    /\ console' = <<>>
    /\ UNCHANGED <<hostVars, layoutVars, resolverVars, clockHours, highlight, currentView, currentDate, activities,
                   bankActivities, store, calendarDom, bankDropListeners, style, modalOpen,
                   currentEditingActivity, dndVars>>

(***************************************************************************)
(* DragDropManager                                                         *)
(***************************************************************************)
\* this.touchDragThreshold
touchDragThreshold == 10

\* Where a touch goes down and where it moves to.
StartPoints == {<<0, 0>>, <<7, 8>>}
Points == {<<0, 0>>, <<6, 8>>, <<7, 8>>}

\* The comparison of line 1035 with >= for >.
BeyondThresholdInclusive(p, q) ==
    (p[1] - q[1]) * (p[1] - q[1]) + (p[2] - q[2]) * (p[2] - q[2])
        >= touchDragThreshold * touchDragThreshold

\* handleTouchMove, lines 1032-1037: Math.sqrt(dx*dx + dy*dy) > threshold.
BeyondThreshold(p, q) ==
    (p[1] - q[1]) * (p[1] - q[1]) + (p[2] - q[2]) * (p[2] - q[2])
        > touchDragThreshold * touchDragThreshold

\* getActivityFromElement: the id of the activity the element resolves to.
getActivityFromElement(el, acts) ==
    IF el \in Ids /\ acts[el] # NoAct THEN el ELSE NoId

\* A child element of a drop zone: a .activity-item in the bank, the day
\* number or the activities of a .month-day.  Time slots have no children.
HasChildren(z) == z.kind \in {"bank", "cell"}
ChildOf(z) == [z EXCEPT !.kind = IF z.kind = "bank" THEN "bankChild" ELSE "cellChild"]
\* The drop zone whose listeners an event on el reaches (el or its parent).
ZoneOf(el) ==
    IF el.kind = "bankChild" THEN BankZone
    ELSE IF el.kind = "cellChild" THEN [el EXCEPT !.kind = "cell"]
    ELSE el

\* Whether setupDropZone registered listeners on the element, as displayed.
IsListening(zone) ==
    zone = BankZone \/ IsCalendarZone(zone, currentView, currentDate, tz)

\* The drop zones the user moves over.
VisitedZones == {BankZone} \cup DropTargets(currentView, currentDate, tz)

\* What a native drag can be over.
HoverElements ==
    {NoZone} \cup VisitedZones \cup {ChildOf(z) : z \in {y \in VisitedZones : HasChildren(y)}}

\* What findDropZone(document.elementFromPoint(x, y)) can return.
TouchZones ==
    {NoZone} \cup VisitedZones
        \cup (IF currentView = "week"
              THEN {ColumnZone(WeekDateKey(currentDate, i, tz)) : i \in DropDayIdx}
              ELSE {})

\* Elements a gesture can start on: the activity elements, and their children.
SourceElements ==
    LET els == bankActivities \cup calendarDom
    IN  els \cup (IF els = {} THEN {} ELSE {ChildEl})

\* clearDropZoneHighlights
clearDropZoneHighlights(hl) == {}

\* n times the line x of the console.
Repeat(x, n) == [k \in 1..n |-> x]

\* How many times setupDragElement can have added its listeners to the
\* element, or to the element a child is of: once for an item of the bank
\* (setupBankDraggers) and for a .month-activity
\* (setupAllCalendarActivityDraggers), twice for a .calendar-activity of the
\* day or the week (setupAllCalendarActivityDraggers, then
\* app.setupCalendarActivityDraggers, which removes nothing).  An element no
\* longer displayed keeps what it had.
DragListeners(el) ==
    LET item    == IF el \in bankActivities THEN {1} ELSE {}
        element == IF el \in calendarDom
                   THEN {IF currentView = "month" THEN 1 ELSE 2} ELSE {}
    IN  IF item \cup element = {} THEN {1, 2} ELSE item \cup element

\* handleDragStart, lines 962-969, run by each dragstart listener of the
\* element.
HandleDragStart ==
    \E el \in SourceElements :
      \E n \in DragListeners(el) :
        LET act == getActivityFromElement(el, activities)
        IN  /\ pointer = "none"
            /\ ~modalOpen
            /\ draggedElement' = el
            /\ draggedActivity' = act
            /\ isDragging' = TRUE
            \* e.preventDefault() cancels the drag: no operation, no dragend.
            /\ pointer' = IF act = NoId THEN "none" ELSE "native"
            /\ dataTransfer' = IF act = NoId THEN dataTransfer ELSE act
            /\ BeginOp
            /\ toasts' = <<>>
            /\ console' = IF act = NoId THEN <<>> ELSE Repeat("Drag started", n)
            /\ UNCHANGED <<hostVars, layoutVars, resolverVars, clockHours, highlight, appVars, touchStartPos, dragPreview,
                           touchTarget, touchPos, hover, orphanPreview>>

\* handleDragEnter, lines 1001-1004, for the element the drag enters.
handleDragEnter(hl, el, dragging) ==
    IF dragging /\ IsListening(ZoneOf(el)) THEN hl \cup {el} ELSE hl

\* handleDragLeave, lines 1008-1013, for the element the drag leaves; related
\* is the element it enters.
handleDragLeave(hl, el, related, dragging) ==
    IF dragging /\ IsListening(ZoneOf(el)) /\ ZoneOf(related) # ZoneOf(el)
    THEN hl \ {el} ELSE hl

\* The pointer of a native drag moves onto another element: dragenter on it,
\* then dragleave on the element it was over.
DragMove ==
    \E el \in HoverElements \ {hover} :
        /\ pointer = "native"
        /\ hover' = el
        /\ highlight' = handleDragLeave(handleDragEnter(highlight, el, isDragging),
                                        hover, el, isDragging)
        /\ UNCHANGED ops
        /\ toasts' = <<>>
        /\ console' = <<>>
        /\ UNCHANGED <<hostVars, layoutVars, resolverVars, clockHours, appVars, isDragging, draggedElement, draggedActivity,
                       touchStartPos, dragPreview, pointer, touchTarget, touchPos, dataTransfer,
                       orphanPreview>>

\* handleDragEnd, lines 983-988, on the dragend that closes every native drag.
HandleDragEndEffect ==
    /\ highlight' = clearDropZoneHighlights(highlight)
    /\ draggedElement' = NoId
    /\ draggedActivity' = NoId
    /\ isDragging' = FALSE
    /\ pointer' = "none"
    /\ hover' = NoZone
    /\ dataTransfer' = NoId

\* A handleDragEnd that saves the dragged activity when the drag ends.
HandleDragEndSaving ==
    /\ pointer = "native"
    /\ CanRequest
    /\ dataTransfer \in Ids
    /\ dbQueue' = Append(dbQueue,
          PutRequest("toBank", dataTransfer, activities[dataTransfer], BankZone))
    /\ HandleDragEndEffect
    /\ UNCHANGED ops
    /\ toasts' = <<>>
    /\ console' = <<"Drag ended">>
    /\ UNCHANGED <<hostVars, layoutVars, resolverVars, clockHours, currentView, currentDate, activities, bankActivities,
                   store, calendarDom, bankDropListeners, style, modalOpen, currentEditingActivity,
                   touchStartPos, dragPreview, touchTarget, touchPos, orphanPreview>>

\* The drag is released over no drop zone, or cancelled: dragend only.
HandleDragEnd ==
    /\ pointer = "native"
    /\ HandleDragEndEffect
    /\ UNCHANGED ops
    /\ toasts' = <<>>
    /\ \E n \in DragListeners(draggedElement) : console' = Repeat("Drag ended", n)
    /\ UNCHANGED <<hostVars, layoutVars, resolverVars, clockHours, appVars, touchStartPos, dragPreview, touchTarget, touchPos,
                   orphanPreview>>

\* The activity a drop handler hands to saveActivity: handleBankDrop calls
\* moveActivityToBank, handleCalendarDrop calls moveActivityToCalendar with
\* the data-date and data-time of e.currentTarget.
DropSchedule(a, zone, nowHours, z) ==
    IF zone = BankZone THEN moveActivityToBank(a)
    ELSE moveActivityToCalendar(a, zone.date, zone.time, nowHours, z)

DropHandlerName(zone) == IF zone = BankZone THEN "toBank" ELSE "toCalendar"

\* A drop handler whose moveActivityTo* does not await saveActivity: the
\* activities are asked of the store while the save is in flight.
DropHandlerNoAwait(id, zone) ==
    IF id \in Ids /\ activities[id] # NoAct /\ (zone = BankZone \/ zone.date # NoDate) THEN
        \E nowHours \in NowHours :
            LET a == DropSchedule(activities[id], zone, nowHours, tz)
                h == DropHandlerName(zone)
            IN  /\ activities' = [activities EXCEPT ![id] = a]
                /\ dbQueue' = Append(Append(dbQueue, PutRequest(h, id, a, zone)),
                                     GetAllRequest(h, id, zone))
                /\ clockHours' = IF zone # BankZone /\ zone.time = NoTime
                                 THEN nowHours ELSE clockHours
                /\ toasts' = <<>>
    ELSE /\ UNCHANGED <<activities, dbQueue, clockHours>>
         /\ toasts' = IF id \in Ids /\ (zone = BankZone \/ zone.date # NoDate)
                      THEN <<DropSuccessToast(DropHandlerName(zone))>> ELSE <<>>

\* The drop listeners on a zone: a zone of the calendar is an element of the
\* last render, set up once by setupCalendarDropZones (lines 848-869).
DropListeners(zone) ==
    IF zone = BankZone THEN bankDropListeners ELSE setupDropZone(0)

\* One run of the drop handler of a zone up to its first await, on what the
\* listeners before it left in st: the activity of the id is changed in
\* app.activities, then handed to saveActivity; a target without data-time
\* reads the clock (line 2553).  A calendar target without data-date ends the
\* handler (line 1193).  When the id is of no activity, moveActivityToBank /
\* moveActivityToCalendar return at once (lines 2512, 2530) and the handler
\* goes on to its success toast (lines 1204, 1224).
RunDropHandler(st, id, zone, nowHours, z) ==
    IF id \in Ids /\ st.activities[id] # NoAct /\ (zone = BankZone \/ zone.date # NoDate) THEN
        LET a == DropSchedule(st.activities[id], zone, nowHours, z)
        IN  [activities |-> [st.activities EXCEPT ![id] = a],
             dbQueue    |-> Append(st.dbQueue, PutRequest(DropHandlerName(zone), id, a, zone)),
             clockHours |-> IF zone # BankZone /\ zone.time = NoTime
                            THEN nowHours ELSE st.clockHours,
             toasts     |-> st.toasts]
    ELSE [st EXCEPT !.toasts =
              st.toasts \o (IF id \in Ids /\ (zone = BankZone \/ zone.date # NoDate)
                            THEN <<DropSuccessToast(DropHandlerName(zone))>> ELSE <<>>)]

\* The drop event runs the n drop listeners of its target one after the other.
RECURSIVE DispatchDrop(_, _, _, _, _, _)
DispatchDrop(st, id, zone, nowHours, z, n) ==
    IF n = 0 THEN st
    ELSE DispatchDrop(RunDropHandler(st, id, zone, nowHours, z), id, zone, nowHours, z, n - 1)

\* A drop event on the zone, up to the first await of its handlers.
DropHandler(id, zone) ==
    \E nowHours \in NowHours :
        LET st == DispatchDrop([activities |-> activities, dbQueue |-> dbQueue,
                                clockHours |-> clockHours, toasts |-> <<>>],
                               id, zone, nowHours, tz, DropListeners(zone))
        IN  /\ activities' = st.activities
            /\ dbQueue' = st.dbQueue
            /\ clockHours' = st.clockHours
            /\ toasts' = st.toasts

\* A native drag is released over a drop zone: drop on the zone
\* (handleCalendarDrop / handleBankDrop), then dragend (handleDragEnd).
HandleDropEvent ==
    /\ pointer = "native"
    /\ isDragging
    /\ IsListening(ZoneOf(hover))
    /\ DropHandler(dataTransfer, ZoneOf(hover))
    /\ HandleDragEndEffect
    /\ UNCHANGED ops
    /\ \E n \in DragListeners(draggedElement) :
           console' = Repeat("Dropping activity", DropListeners(ZoneOf(hover)))
                          \o Repeat("Drag ended", n)
    /\ UNCHANGED <<hostVars, layoutVars, resolverVars, currentView, currentDate, bankActivities, store,
                   calendarDom, bankDropListeners, style, modalOpen, currentEditingActivity, touchStartPos,
                   dragPreview, touchTarget, touchPos, orphanPreview>>

\* The release of HandleDropEvent while the page may make one more request.
HandleDrop == CanRequest /\ HandleDropEvent

\* handleTouchStart: a finger goes down on an activity element or on a child
\* of one.
HandleTouchStart ==
    \E el \in SourceElements, p \in StartPoints :
        /\ pointer = "none"
        /\ ~modalOpen
        /\ pointer' = "touch"
        /\ touchTarget' = el
        /\ touchStartPos' = p
        /\ touchPos' = p
        /\ BeginOp
        /\ toasts' = <<>>
        /\ console' = <<>>
        /\ UNCHANGED <<hostVars, layoutVars, resolverVars, clockHours, highlight, appVars, isDragging, draggedElement,
                       draggedActivity, dragPreview, dataTransfer, hover,
                       orphanPreview>>

\* highlightDropZoneAtPoint: zone is findDropZone of the element at the point.
highlightDropZoneAtPoint(hl, zone) ==
    IF zone = NoZone THEN clearDropZoneHighlights(hl)
    ELSE clearDropZoneHighlights(hl) \cup {zone}

\* handleTouchMove, with startTouchDrag (lines 1057-1069) and updateTouchDrag
\* (lines 1092-1100): the finger moves to p, over zone.
HandleTouchMove ==
    \E p \in Points, zone \in TouchZones :
        LET starts   == ~isDragging /\ BeyondThreshold(p, touchStartPos)
            act      == getActivityFromElement(touchTarget, activities)
            creates  == starts /\ act # NoId
            dragging == isDragging \/ starts
            preview  == dragPreview \/ creates
        IN  /\ pointer = "touch"
            /\ touchPos' = p
            /\ isDragging' = dragging
            /\ draggedElement' = IF starts THEN touchTarget ELSE draggedElement
            /\ draggedActivity' = IF starts THEN act ELSE draggedActivity
            /\ dragPreview' = preview
            /\ orphanPreview' = (orphanPreview \/ (creates /\ dragPreview))
            /\ highlight' = IF dragging /\ preview
                            THEN highlightDropZoneAtPoint(highlight, zone)
                            ELSE highlight
            /\ UNCHANGED ops
            /\ toasts' = <<>>
            /\ console' = IF creates THEN <<"Touch drag started">> ELSE <<>>
            /\ UNCHANGED <<hostVars, layoutVars, resolverVars, clockHours, appVars, touchStartPos, pointer, touchTarget,
                           dataTransfer, hover>>

\* endTouchDrag, lines 1122-1133, reached when no drop zone is at the point.
EndTouchDragCleanUp ==
    /\ dragPreview' = FALSE
    /\ highlight' = clearDropZoneHighlights(highlight)
    /\ draggedElement' = NoId
    /\ draggedActivity' = NoId

\* handleTouchEnd, run by each touchend listener of the element: the finger
\* is lifted over zone.  With a drop zone at the
\* point endTouchDrag assigns to the read-only currentTarget of its Event
\* (line 1111), which throws in the strict code of a class: the drop handler
\* is not called and neither the clean up nor line 1051 is reached, in any
\* of the listeners.  With no drop zone the first listener cleans up and
\* clears isDragging, and the others find nothing to do.
HandleTouchEnd ==
    \E zone \in TouchZones :
        /\ pointer = "touch"
        /\ pointer' = "none"
        /\ touchTarget' = NoId
        /\ touchPos' = <<0, 0>>
        /\ IF isDragging THEN
               IF zone # NoZone
               THEN UNCHANGED <<isDragging, draggedElement, draggedActivity,
                                dragPreview, highlight>>
               ELSE EndTouchDragCleanUp /\ isDragging' = FALSE
           ELSE /\ isDragging' = FALSE
                /\ UNCHANGED <<draggedElement, draggedActivity, dragPreview, highlight>>
        /\ UNCHANGED ops
        /\ toasts' = <<>>
        /\ \E n \in DragListeners(touchTarget) :
               console' = IF ~isDragging THEN <<>>
                          ELSE IF zone # NoZone THEN Repeat("Uncaught TypeError", n)
                          ELSE <<"Touch drag ended">>
        /\ UNCHANGED <<hostVars, layoutVars, resolverVars, clockHours, appVars, touchStartPos, dataTransfer, hover,
                       orphanPreview>>

\* The platform cancels the touch (touchcancel): setupDragElement registers
\* no listener for it.
TouchCancel ==
    /\ pointer = "touch"
    /\ pointer' = "none"
    /\ touchTarget' = NoId
    /\ touchPos' = <<0, 0>>
    /\ UNCHANGED ops
    /\ toasts' = <<>>
    /\ console' = <<>>
    /\ UNCHANGED <<hostVars, layoutVars, resolverVars, clockHours, highlight, appVars, isDragging, draggedElement,
                   draggedActivity, touchStartPos, dragPreview, dataTransfer, hover,
                   orphanPreview>>

(***************************************************************************)
(* DragDropManager: time conflicts                                         *)
(***************************************************************************)
\* detectTimeConflicts with the comparisons of line 1376 inclusive.
detectTimeConflictsInclusive(candidate, existingActivities) ==
    IF candidate.start = Null \/ candidate.end = Null THEN <<>>
    ELSE SelectSeq(existingActivities,
                   LAMBDA activity :
                       /\ ~(activity.start = Null \/ activity.end = Null
                               \/ activity.id = candidate.id)
                       /\ candidate.start <= activity.end
                       /\ candidate.end >= activity.start)

\* detectTimeConflicts, lines 1363-1378.
detectTimeConflicts(candidate, existingActivities) ==
    IF candidate.start = Null \/ candidate.end = Null THEN <<>>
    ELSE SelectSeq(existingActivities,
                   LAMBDA activity :
                       /\ ~(activity.start = Null \/ activity.end = Null
                               \/ activity.id = candidate.id)
                       /\ candidate.start < activity.end
                       /\ candidate.end > activity.start)

\* resolveTimeConflict, line 1388.
maxAttempts == 20

\* Minutes of one shift (line 1395).
ShiftMinutes == 15

\* The test of the while loop with attempts = maxAttempts let through.
WhileTestInclusive(n) == n <= maxAttempts

\* The test of the while loop, line 1390.
WhileTest(n) == n < maxAttempts

\* Lines 1404-1408: how resolveTimeConflict ends once the loop is left.
AfterLoop(n) == IF n >= maxAttempts THEN "thrown" ELSE "returned"

\* Line 1391: one more iteration begins and detects the conflicts.
ResolveDetect ==
    /\ resolving = "loop"
    /\ WhileTest(attempts)
    /\ conflicts' = detectTimeConflicts(newActivity, conflictingActivities)
    /\ resolving' = "detected"
    /\ UNCHANGED <<newActivity, conflictingActivities, attempts, calledWith>>
    /\ UNCHANGED <<hostVars, layoutVars, clockHours, toasts, console, highlight, appVars, dndVars, ops>>

\* Line 1392: no conflict, break.
ResolveBreak ==
    /\ resolving = "detected"
    /\ Len(conflicts) = 0
    /\ resolving' = AfterLoop(attempts)
    /\ UNCHANGED <<newActivity, conflictingActivities, attempts, conflicts, calledWith>>
    /\ UNCHANGED <<hostVars, layoutVars, clockHours, toasts, console, highlight, appVars, dndVars, ops>>

\* Lines 1395-1401: the activity object is moved 15 minutes later; its
\* duration is that of the call (line 1384).
ResolveShift ==
    /\ resolving = "detected"
    /\ Len(conflicts) # 0
    /\ LET duration == calledWith.end - calledWith.start
           start    == newActivity.start + ShiftMinutes
       IN  newActivity' = [newActivity EXCEPT !.start = start, !.end = start + duration]
    /\ attempts' = attempts + 1
    /\ resolving' = "loop"
    /\ UNCHANGED <<conflictingActivities, conflicts, calledWith>>
    /\ UNCHANGED <<hostVars, layoutVars, clockHours, toasts, console, highlight, appVars, dndVars, ops>>

\* The while test fails: the loop is left.
ResolveExit ==
    /\ resolving = "loop"
    /\ ~WhileTest(attempts)
    /\ resolving' = AfterLoop(attempts)
    /\ UNCHANGED <<newActivity, conflictingActivities, attempts, conflicts, calledWith>>
    /\ UNCHANGED <<hostVars, layoutVars, clockHours, toasts, console, highlight, appVars, dndVars, ops>>

(***************************************************************************)
(* CalendarManager: columns of overlapping activities                      *)
(***************************************************************************)
\* totalColumns without the column of the activity itself.
totalColumnsOfOthers(column, maxColumn) == maxColumn + 1

\* Line 638.
totalColumns(column, maxColumn) == Max(maxColumn + 1, column + 1)

\* The loop of lines 619-633 from the k-th positioned entry on: column and
\* maxColumn once every entry was visited.
RECURSIVE ScanPositioned(_, _, _, _, _)
ScanPositioned(activity, placed, k, column, maxColumn) ==
    IF k > Len(placed) THEN [column |-> column, maxColumn |-> maxColumn]
    ELSE LET existing == placed[k]
         IN  IF /\ activity.start < existing.activity.end
                /\ activity.end > existing.activity.start
             THEN ScanPositioned(activity, placed, k + 1,
                                 IF existing.column >= column
                                 THEN existing.column + 1 ELSE column,
                                 Max(maxColumn, existing.column))
             ELSE ScanPositioned(activity, placed, k + 1, column, maxColumn)

\* One iteration of the forEach of calculateActivityPositions, lines 612-640.
PositionNext ==
    /\ layoutIndex < Len(layoutInput)
    /\ LET activity == layoutInput[layoutIndex + 1]
           found    == ScanPositioned(activity, positioned, 1, 0, 0)
       IN  positioned' =
               IF activity.start = Null \/ activity.end = Null THEN positioned
               ELSE Append(positioned,
                           [activity     |-> activity,
                            column       |-> found.column,
                            totalColumns |-> totalColumns(found.column, found.maxColumn)])
    /\ layoutIndex' = layoutIndex + 1
    /\ UNCHANGED layoutInput
    /\ UNCHANGED <<hostVars, resolverVars, clockHours, toasts, console, highlight,
                   appVars, dndVars, ops>>

(***************************************************************************)
(* The application                                                         *)
(***************************************************************************)
NoActivities == [i \in Ids |-> NoAct]

\* A trip with the one activity a.
OneActivity(a) == [i \in Ids |-> IF i = "a1" THEN a ELSE NoAct]

\* Nothing has called calculateActivityPositions.
LayoutIdle ==
    /\ layoutInput = <<>>
    /\ positioned = <<>>
    /\ layoutIndex = 0

\* Nothing has called resolveTimeConflict, and no drop has read the clock.
ResolverIdle ==
    /\ newActivity = NoCall
    /\ conflictingActivities = <<>>
    /\ attempts = 0
    /\ conflicts = <<>>
    /\ resolving = "idle"
    /\ calledWith = NoCall
    /\ clockHours = Null

\* What the store holds of the trip when the application starts: nothing, or
\* one activity in the bank.
StoredTrips ==
    {NoActivities, OneActivity([start |-> Null, end |-> Null, source |-> "bank"])}

\* The application after init() on a host h, the trip loaded: day view of
\* today, nothing in flight, the controller as its constructor leaves it.
Init ==
    /\ \E h \in Hosts : tz = h[1] /\ today = Today(h)
    /\ isMobile = FALSE
    /\ currentView = "day"
    /\ currentDate = today
    /\ store \in StoredTrips
    /\ activities = store
    /\ bankActivities = BankFilter(store)
    /\ calendarDom = {}
    /\ bankDropListeners = setupDropZone(cleanupDropZones(0))
    /\ style = [i \in Ids |-> NoStyle]
    /\ dbQueue = <<>>
    /\ toasts = <<>>
    /\ modalOpen = FALSE
    /\ currentEditingActivity = NoEdit
    /\ isDragging = FALSE
    /\ draggedElement = NoId
    /\ draggedActivity = NoId
    /\ touchStartPos = <<0, 0>>
    /\ dragPreview = FALSE
    /\ highlight = {}
    /\ pointer = "none"
    /\ touchTarget = NoId
    /\ dataTransfer = NoId
    /\ hover = NoZone
    /\ orphanPreview = FALSE
    /\ touchPos = <<0, 0>>
    /\ console = <<>>
    /\ ResolverIdle
    /\ LayoutIdle
    /\ ops = 0

Next ==
    \/ SwitchView
    \/ NavigatePrevious
    \/ NavigateNext
    \/ ShowActivityModal
    \/ HideActivityModal
    \/ HandleActivitySubmit
    \/ DeleteCurrentActivity
    \/ HandleFileImport
    \/ DropSaveResolved
    \/ DropSaveRejected
    \/ LoadResolved
    \/ LoadRejected
    \/ SubmitSaved
    \/ SubmitRejected
    \/ ImportSaved
    \/ ImportRejected
    \/ DeleteResolved
    \/ DeleteRejected
    \/ HandleDragStart
    \/ DragMove
    \/ HandleDragEnd
    \/ HandleDrop
    \/ HandleTouchStart
    \/ HandleTouchMove
    \/ HandleTouchEnd
    \/ TouchCancel

Spec == Init /\ [][Next]_vars

(***************************************************************************)
(* A drop on each time slot of the grid                                    *)
(***************************************************************************)
\* What the trip's activity is before the drop: in the bank, or on the
\* calendar from 09:00 to 11:00 of today.
PriorSchedules(h) ==
    {[start |-> Null, end |-> Null, source |-> "bank"],
     [start |-> NewDate(2025, 5, 4, h[1]) + 540,
      end |-> NewDate(2025, 5, 4, h[1]) + 660, source |-> "calendar"]}

\* The trip's one activity is loaded and displayed in day or week view, and a
\* native drag of it is over one of the view's time slots.
SlotsInit ==
    \E h \in Hosts, v \in {"day", "week"}, s \in DOMAIN generateTimeSlots, i \in 0..6 :
      \E a \in PriorSchedules(h), mobile \in BOOLEAN :
        /\ tz = h[1]
        /\ isMobile = mobile
        /\ today = Today(h)
        /\ currentView = v
        /\ currentDate = today
        /\ activities = OneActivity(a)
        /\ bankActivities = BankFilter(OneActivity(a))
        /\ store = OneActivity(a)
        /\ calendarDom = renderCalendar(OneActivity(a), v, today, h[1])
        /\ bankDropListeners = setupDropZone(cleanupDropZones(0))
        /\ style = renderStyles(OneActivity(a), v, today, h[1], isMobile)
        /\ dbQueue = <<>>
        /\ toasts = <<>>
        /\ modalOpen = FALSE
        /\ currentEditingActivity = NoEdit
        /\ isDragging = TRUE
        /\ draggedElement = "a1"
        /\ draggedActivity = "a1"
        /\ touchStartPos = <<0, 0>>
        /\ dragPreview = FALSE
        /\ pointer = "native"
        /\ touchTarget = NoId
        /\ dataTransfer = "a1"
        /\ hover = SlotZone(IF v = "day" THEN DayDateKey(today, h[1])
                            ELSE WeekDateKey(today, i, h[1]),
                            generateTimeSlots[s].time)
        /\ highlight = {hover}
        /\ orphanPreview = FALSE
        /\ touchPos = <<0, 0>>
        /\ console = <<>>
        /\ ResolverIdle
        /\ LayoutIdle
        /\ ops = 1

SlotsNext ==
    \/ HandleDrop
    \/ DropSaveResolved
    \/ DropSaveRejected
    \/ LoadResolved
    \/ LoadRejected

SpecSlots == SlotsInit /\ [][SlotsNext]_vars

(***************************************************************************)
(* Whole-day drops of two activities in month view                         *)
(***************************************************************************)
\* The trip has two activities and the month of today is displayed.  A
\* whole-day drop made when the clock showed hour r has placed a2 on the j-th
\* cell of the grid, and was saved and loaded; a1 is in the bank or on the
\* calendar, and a native drag of a1 is over a cell or over a child of it.
CellsInit ==
    \E h \in Hosts, r \in NowHours, j \in {3, 4}, child \in BOOLEAN :
      \E a \in PriorSchedules(h) :
        LET placed == moveActivityToCalendar(
                          [start |-> Null, end |-> Null, source |-> "bank"],
                          MonthDateKey(Today(h), j, h[1]), NoTime, r, h[1])
            trip   == [i \in Ids |-> IF i = "a1" THEN a ELSE placed]
            cell   == CHOOSE z \in DropTargets("month", Today(h), h[1]) : TRUE
        IN  /\ tz = h[1]
            /\ isMobile = FALSE
            /\ today = Today(h)
            /\ currentView = "month"
            /\ currentDate = today
            /\ activities = trip
            /\ bankActivities = BankFilter(trip)
            /\ store = trip
            /\ calendarDom = renderCalendar(trip, "month", today, h[1])
            /\ bankDropListeners = setupDropZone(cleanupDropZones(0))
            /\ style = renderStyles(trip, "month", today, h[1], isMobile)
            /\ dbQueue = <<>>
            /\ toasts = <<>>
            /\ modalOpen = FALSE
            /\ currentEditingActivity = NoEdit
            /\ isDragging = TRUE
            /\ draggedElement = "a1"
            /\ draggedActivity = "a1"
            /\ touchStartPos = <<0, 0>>
            /\ dragPreview = FALSE
            /\ pointer = "native"
            /\ touchTarget = NoId
            /\ dataTransfer = "a1"
            /\ hover = IF child THEN ChildOf(cell) ELSE cell
            /\ highlight = IF child THEN {cell, ChildOf(cell)} ELSE {cell}
            /\ orphanPreview = FALSE
            /\ touchPos = <<0, 0>>
            /\ console = <<>>
            /\ newActivity = NoCall
            /\ conflictingActivities = <<>>
            /\ attempts = 0
            /\ conflicts = <<>>
            /\ resolving = "idle"
            /\ calledWith = NoCall
            /\ clockHours = r
            /\ LayoutIdle
            /\ ops = 2

CellsNext ==
    \/ HandleDrop
    \/ DropSaveResolved
    \/ DropSaveRejected
    \/ LoadResolved
    \/ LoadRejected

SpecCells == CellsInit /\ [][CellsNext]_vars

(***************************************************************************)
(* Dates near local midnight on hosts of several UTC offsets               *)
(***************************************************************************)
\* Local days the page is opened on: <<year, month index, day>>.
OpeningDays == {<<2025, 5, 4>>, <<2025, 11, 31>>, <<2026, 0, 1>>, <<2026, 1, 28>>}

\* Local times of day, in minutes, the page is opened at.
OpeningMinutes == {0, 30, 180, 720, 1290, 1439}

\* The page was opened in day view, the trip's one activity is in the bank,
\* and a native drag of it is over a time slot of the displayed day.
DatesInit ==
    \E z \in Offsets, day \in OpeningDays, mi \in OpeningMinutes, s \in DropSlotIdx :
        LET now  == NewDate(day[1], day[2], day[3], z) + mi
            trip == OneActivity([start |-> Null, end |-> Null, source |-> "bank"])
        IN  /\ tz = z
            /\ isMobile = FALSE
            /\ today = now
            /\ currentView = "day"
            /\ currentDate = now
            /\ activities = trip
            /\ bankActivities = BankFilter(trip)
            /\ store = trip
            /\ calendarDom = {}
            /\ bankDropListeners = setupDropZone(cleanupDropZones(0))
            /\ style = [i \in Ids |-> NoStyle]
            /\ dbQueue = <<>>
            /\ toasts = <<>>
            /\ modalOpen = FALSE
            /\ currentEditingActivity = NoEdit
            /\ isDragging = TRUE
            /\ draggedElement = "a1"
            /\ draggedActivity = "a1"
            /\ touchStartPos = <<0, 0>>
            /\ dragPreview = FALSE
            /\ pointer = "native"
            /\ touchTarget = NoId
            /\ dataTransfer = "a1"
            /\ hover = SlotZone(DayDateKey(now, z), generateTimeSlots[s].time)
            /\ highlight = {hover}
            /\ orphanPreview = FALSE
            /\ touchPos = <<0, 0>>
            /\ console = <<>>
            /\ ResolverIdle
            /\ LayoutIdle
            /\ ops = 1

DatesNext ==
    \/ HandleDrop
    \/ DropSaveResolved
    \/ DropSaveRejected
    \/ LoadResolved
    \/ LoadRejected

SpecDates == DatesInit /\ [][DatesNext]_vars

(***************************************************************************)
(* A drag that is under way while the activity is being deleted            *)
(***************************************************************************)
\* deleteCurrentActivity awaits the store for the trip's one activity (line
\* 2148), the modal still open, and a native drag of the activity's element
\* is over a drop zone of the displayed view.
StaleInit ==
    \E h \in Hosts, v \in Views :
      \E a \in PriorSchedules(h), z \in {BankZone} \cup DropTargets(v, Today(h), h[1]) :
        /\ tz = h[1]
        /\ isMobile = FALSE
        /\ today = Today(h)
        /\ currentView = v
        /\ currentDate = today
        /\ activities = OneActivity(a)
        /\ bankActivities = BankFilter(OneActivity(a))
        /\ store = OneActivity(a)
        /\ calendarDom = renderCalendar(OneActivity(a), v, today, h[1])
        /\ bankDropListeners = setupDropZone(cleanupDropZones(0))
        /\ style = renderStyles(OneActivity(a), v, today, h[1], isMobile)
        /\ dbQueue = <<DeleteRequest("a1")>>
        /\ toasts = <<>>
        /\ modalOpen = TRUE
        /\ currentEditingActivity =
              [id |-> "a1", start |-> a.start, end |-> a.end, source |-> a.source]
        /\ isDragging = TRUE
        /\ draggedElement = "a1"
        /\ draggedActivity = "a1"
        /\ touchStartPos = <<0, 0>>
        /\ dragPreview = FALSE
        /\ pointer = "native"
        /\ touchTarget = NoId
        /\ dataTransfer = "a1"
        /\ hover = z
        /\ highlight = {z}
        /\ orphanPreview = FALSE
        /\ touchPos = <<0, 0>>
        /\ console = <<>>
        /\ ResolverIdle
        /\ LayoutIdle
        /\ ops = 2

StaleNext ==
    \/ DeleteResolved
    \/ DeleteRejected
    \/ DragMove
    \/ HandleDragEnd
    \/ HandleDrop
    \/ DropSaveResolved
    \/ DropSaveRejected
    \/ LoadResolved
    \/ LoadRejected

SpecStale == StaleInit /\ [][StaleNext]_vars

(***************************************************************************)
(* Calls of resolveTimeConflict                                            *)
(***************************************************************************)
\* Start and end the activity has when resolveTimeConflict is called: an
\* hour or half an hour from 09:00, only a start, or neither.
CandidateTimes == {<<540, 600>>, <<540, 570>>, <<540, Null>>, <<Null, Null>>}

\* The activities the call may be given: a block of five hours, an activity
\* that begins when the candidate ends, one inside the candidate's hour, one
\* that ends 15 minutes into it, the candidate itself, an activity of the
\* bank, a booked day, and a block that ends 15 minutes before the first.
OtherActivities ==
    {[id |-> "b1", start |-> 540, end |-> 840],
     [id |-> "b2", start |-> 600, end |-> 660],
     [id |-> "b3", start |-> 550, end |-> 560],
     [id |-> "b4", start |-> 500, end |-> 555],
     [id |-> "a1", start |-> 540, end |-> 600],
     [id |-> "b5", start |-> Null, end |-> Null],
     [id |-> "b6", start |-> 0, end |-> 1440],
     [id |-> "b7", start |-> 540, end |-> 825]}

\* Activities a call is given at most.
MaxExisting == 2

ExistingLists ==
    UNION {[1..n -> OtherActivities] : n \in 0..MaxExisting}

\* resolveTimeConflict was called for the trip's activity a1 with a list of
\* activities, and is at the head of its loop (lines 1381-1388).
ResolveInit ==
    \E t \in CandidateTimes, existing \in ExistingLists :
        LET trip == OneActivity([start |-> t[1], end |-> t[2],
                                 source |-> IF t[1] # Null /\ t[2] # Null
                                            THEN "calendar" ELSE "bank"])
        IN  /\ tz = 0
            /\ isMobile = FALSE
            /\ today = Today(<<0, 720>>)
            /\ currentView = "day"
            /\ currentDate = today
            /\ activities = trip
            /\ bankActivities = BankFilter(trip)
            /\ store = trip
            /\ calendarDom = renderCalendar(trip, "day", today, 0)
            /\ bankDropListeners = setupDropZone(cleanupDropZones(0))
            /\ style = renderStyles(trip, "day", today, 0, isMobile)
            /\ dbQueue = <<>>
            /\ toasts = <<>>
            /\ modalOpen = FALSE
            /\ currentEditingActivity = NoEdit
            /\ isDragging = FALSE
            /\ draggedElement = NoId
            /\ draggedActivity = NoId
            /\ touchStartPos = <<0, 0>>
            /\ dragPreview = FALSE
            /\ highlight = {}
            /\ pointer = "none"
            /\ touchTarget = NoId
            /\ dataTransfer = NoId
            /\ hover = NoZone
            /\ orphanPreview = FALSE
            /\ touchPos = <<0, 0>>
            /\ console = <<>>
            /\ clockHours = Null
            /\ newActivity = [id |-> "a1", start |-> t[1], end |-> t[2]]
            /\ calledWith = [id |-> "a1", start |-> t[1], end |-> t[2]]
            /\ conflictingActivities = existing
            /\ attempts = 0
            /\ conflicts = <<>>
            /\ resolving = "loop"
            /\ LayoutIdle
            /\ ops = 0

ResolveNext ==
    \/ ResolveDetect
    \/ ResolveBreak
    \/ ResolveShift
    \/ ResolveExit

\* The loop is synchronous code: it keeps running until it is left.
SpecResolve == ResolveInit /\ [][ResolveNext]_vars /\ WF_vars(ResolveNext)

(***************************************************************************)
(* Calls of calculateActivityPositions                                     *)
(***************************************************************************)
\* The activities a call may be given: two of the same hour, one that begins
\* inside that hour, one that begins when the hour ends, and one of the bank.
LayoutActivities ==
    {[id |-> "p1", start |-> 540, end |-> 600],
     [id |-> "p2", start |-> 540, end |-> 600],
     [id |-> "p3", start |-> 570, end |-> 660],
     [id |-> "p4", start |-> 600, end |-> 660],
     [id |-> "p5", start |-> Null, end |-> Null]}

\* Activities a call is given at most.
MaxLayout == 3

\* calculateActivityPositions was called with a list of activities; the page
\* is as init() leaves it, the trip empty.
LayoutInit ==
    \E list \in UNION {[1..n -> LayoutActivities] : n \in 0..MaxLayout} :
        /\ tz = 0
        /\ isMobile = FALSE
        /\ today = Today(<<0, 720>>)
        /\ currentView = "day"
        /\ currentDate = today
        /\ activities = NoActivities
        /\ bankActivities = {}
        /\ store = NoActivities
        /\ calendarDom = {}
        /\ bankDropListeners = setupDropZone(cleanupDropZones(0))
        /\ style = [i \in Ids |-> NoStyle]
        /\ dbQueue = <<>>
        /\ toasts = <<>>
        /\ modalOpen = FALSE
        /\ currentEditingActivity = NoEdit
        /\ isDragging = FALSE
        /\ draggedElement = NoId
        /\ draggedActivity = NoId
        /\ touchStartPos = <<0, 0>>
        /\ dragPreview = FALSE
        /\ highlight = {}
        /\ pointer = "none"
        /\ touchTarget = NoId
        /\ dataTransfer = NoId
        /\ hover = NoZone
        /\ orphanPreview = FALSE
        /\ touchPos = <<0, 0>>
        /\ console = <<>>
        /\ ResolverIdle
        /\ layoutInput = list
        /\ positioned = <<>>
        /\ layoutIndex = 0
        /\ ops = 0

LayoutNext == PositionNext

SpecLayout == LayoutInit /\ [][LayoutNext]_vars

(***************************************************************************)
(* Navigation from days at the end of a month                              *)
(***************************************************************************)
\* Local days the calendar displays when the user begins to navigate.
NavDays == {<<2025, 4, 31>>, <<2025, 5, 4>>, <<2025, 11, 31>>, <<2026, 0, 31>>}

\* The page was opened at 00:30, 12:00 or 23:30 local time in any view, the
\* trip empty.
NavInit ==
    \E z \in Offsets, day \in NavDays, mi \in {30, 720, 1410}, v \in Views :
        /\ tz = z
        /\ isMobile = FALSE
        /\ today = NewDate(day[1], day[2], day[3], z) + mi
        /\ currentView = v
        /\ currentDate = today
        /\ activities = NoActivities
        /\ bankActivities = {}
        /\ store = NoActivities
        /\ calendarDom = {}
        /\ bankDropListeners = setupDropZone(cleanupDropZones(0))
        /\ style = [i \in Ids |-> NoStyle]
        /\ dbQueue = <<>>
        /\ toasts = <<>>
        /\ modalOpen = FALSE
        /\ currentEditingActivity = NoEdit
        /\ isDragging = FALSE
        /\ draggedElement = NoId
        /\ draggedActivity = NoId
        /\ touchStartPos = <<0, 0>>
        /\ dragPreview = FALSE
        /\ highlight = {}
        /\ pointer = "none"
        /\ touchTarget = NoId
        /\ dataTransfer = NoId
        /\ hover = NoZone
        /\ orphanPreview = FALSE
        /\ touchPos = <<0, 0>>
        /\ console = <<>>
        /\ ResolverIdle
        /\ LayoutIdle
        /\ ops = 0

NavNext ==
    \/ NavigatePrevious
    \/ NavigateNext

SpecNav == NavInit /\ [][NavNext]_vars

(***************************************************************************)
(* Two drops in flight                                                     *)
(***************************************************************************)
\* Both activities of the trip are loaded and displayed in day view.  A drop
\* of a1 on zone z1 is under way, its save in flight or resolved and its load
\* in flight, and a native drag of a1 or of a2 is over zone z2.
TwoDropsInit ==
    \E h \in Hosts, i \in Ids, resolved \in BOOLEAN :
      \E a1 \in PriorSchedules(h), a2 \in PriorSchedules(h),
         z1 \in {BankZone} \cup DropTargets("day", Today(h), h[1]),
         z2 \in {BankZone} \cup DropTargets("day", Today(h), h[1]) :
        LET trip    == [j \in Ids |-> IF j = "a1" THEN a1 ELSE a2]
            dropped == DropSchedule(a1, z1, 9, h[1])
        IN  /\ tz = h[1]
            /\ isMobile = FALSE
            /\ today = Today(h)
            /\ currentView = "day"
            /\ currentDate = today
            /\ activities = [trip EXCEPT !["a1"] = dropped]
            /\ bankActivities = BankFilter(trip)
            /\ store = IF resolved THEN [trip EXCEPT !["a1"] = dropped] ELSE trip
            /\ calendarDom = renderCalendar(trip, "day", today, h[1])
            /\ bankDropListeners = setupDropZone(cleanupDropZones(0))
            /\ style = renderStyles(trip, "day", today, h[1], isMobile)
            /\ dbQueue = IF resolved
                         THEN <<GetAllRequest(DropHandlerName(z1), "a1", z1)>>
                         ELSE <<PutRequest(DropHandlerName(z1), "a1", dropped, z1)>>
            /\ toasts = <<>>
            /\ modalOpen = FALSE
            /\ currentEditingActivity = NoEdit
            /\ isDragging = TRUE
            /\ draggedElement = i
            /\ draggedActivity = i
            /\ touchStartPos = <<0, 0>>
            /\ dragPreview = FALSE
            /\ pointer = "native"
            /\ touchTarget = NoId
            /\ dataTransfer = i
            /\ hover = z2
            /\ highlight = {z2}
            /\ orphanPreview = FALSE
            /\ touchPos = <<0, 0>>
            /\ console = <<"Drag started">>
            /\ ResolverIdle
            /\ LayoutIdle
            /\ ops = 2

TwoDropsNext ==
    \/ HandleDropEvent
    \/ DropSaveResolved
    \/ LoadResolved
    \/ LoadRejected

SpecTwoDrops == TwoDropsInit /\ [][TwoDropsNext]_vars

(***************************************************************************)
(* Properties                                                              *)
(***************************************************************************)
\* C1: after any sequence of form submissions, CSV imports and drops, every
\* activity in memory and every activity written to the store has start and
\* end set together and has source calendar exactly when both are set.
C1_ScheduleInvariant ==
    LET ScheduleInvariant(a) ==
            /\ (a.start = Null) <=> (a.end = Null)
            /\ (a.source = "calendar") <=> (a.start # Null /\ a.end # Null)
    IN  \A i \in Ids :
            /\ activities[i] # NoAct => ScheduleInvariant(activities[i])
            /\ store[i] # NoAct => ScheduleInvariant(store[i])

\* C2: a drop on a time slot sets start to the slot's date at the slot's
\* time, end to start plus one hour and source to calendar, for every slot of
\* the grid and whatever the schedule of the activity was; that activity is
\* what the store is asked to save.
C2_SlotDrop ==
    [][LET Saved == dbQueue'[Len(dbQueue')]
           a     == activities'[Saved.id]
       IN  (/\ Len(dbQueue') = Len(dbQueue) + 1
            /\ Saved.h = "toCalendar"
            /\ Saved.zone.kind = "slot") =>
             /\ formatDateForStorage(a.start, tz) = Saved.zone.date
             /\ <<getHours(a.start, tz), getMinutes(a.start, tz)>> = Saved.zone.time
             /\ a.end = a.start + 60
             /\ a.source = "calendar"
             /\ Saved.val = a]_vars

\* A drop on the 23:00 slot of an activity that lasted two hours is waiting
\* for the store, the activity now ending one hour after its start.
C2_Witness ==
    /\ dbQueue # <<>>
    /\ Head1.h = "toCalendar" /\ Head1.req = "put"
    /\ Head1.zone.time = <<23, 0>>
    /\ store[Head1.id].source = "calendar"
    /\ store[Head1.id].end = store[Head1.id].start + 120
    /\ activities[Head1.id].end = activities[Head1.id].start + 60
    /\ getHours(activities[Head1.id].end, tz) = 0

\* C3: a drop on the bank sets start and end to null and source to bank
\* together, whatever the schedule of the activity was; that activity is what
\* the store is asked to save.
C3_BankDrop ==
    [][LET Saved == dbQueue'[Len(dbQueue')]
       IN  (Len(dbQueue') = Len(dbQueue) + 1 /\ Saved.h = "toBank") =>
             /\ activities'[Saved.id] = [start |-> Null, end |-> Null, source |-> "bank"]
             /\ Saved.val = activities'[Saved.id]]_vars

\* A drop on the bank of an activity the store has on the calendar is waiting
\* for the store.
C3_Witness ==
    /\ dbQueue # <<>>
    /\ Head1.h = "toBank" /\ Head1.req = "put"
    /\ store[Head1.id].source = "calendar"
    /\ store[Head1.id].start # Null
    /\ activities[Head1.id].source = "bank"

\* C4: the date key of a drop target is built from the local year, month and
\* day, in day, week and month view and for every UTC offset: a drop on a
\* target displayed for local day D schedules the activity with its start on
\* local day D.
C4_LocalDateKey ==
    [][LET Saved == dbQueue'[Len(dbQueue')]
       IN  (Len(dbQueue') = Len(dbQueue) + 1 /\ Saved.h = "toCalendar") =>
             formatDateForStorage(activities'[Saved.id].start, tz)
                 = DisplayedFor(Saved.zone, currentView, currentDate, tz)]_vars

\* C5: when saveActivity fails during a drop, the activity in memory has the
\* start, end and source it had before the drop (those of the record the
\* store still holds) and the failure is notified with kind error.
C5_FailedSaveKeepsState ==
    [][(/\ dbQueue # <<>>
        /\ Head1.req = "put" /\ Head1.h \in {"toCalendar", "toBank"}
        /\ dbQueue' = Tail(dbQueue)) =>
         /\ activities'[Head1.id] = store[Head1.id]
         /\ \E k \in DOMAIN toasts' : toasts'[k].kind = "error"]_vars

\* C6: after every gesture end, on every exit path, the controller is Idle:
\* whenever no pointer gesture is in progress, isDragging is false,
\* draggedElement and draggedActivity are cleared, nothing is highlighted and
\* no drag preview remains.
C6_IdleAfterGesture ==
    pointer = "none" =>
        /\ ~isDragging
        /\ draggedElement = NoId
        /\ draggedActivity = NoId
        /\ highlight = {}
        /\ ~dragPreview
        /\ ~orphanPreview

C8_UnresolvedBeginsNothing ==
    draggedActivity = NoId => (~isDragging /\ draggedElement = NoId)

\* C9: while the controller is Armed or Dragging no further gesture begin
\* overwrites the session: the source element and the activity change only by
\* being cleared, and the recorded start position does not change.
C9_SingleSession ==
    [][(isDragging \/ pointer = "touch") =>
         /\ draggedElement' \in {draggedElement, NoId} \/ ~isDragging
         /\ draggedActivity' \in {draggedActivity, NoId} \/ ~isDragging
         /\ touchStartPos' = touchStartPos]_vars

\* C10: a gesture released where there is no drop target, or cancelled, calls
\* no saveActivity and leaves the activities in memory and in the store as
\* they were: a native drag that ends off every drop zone or with dragend
\* alone, and a touch drag that ends with no drop zone at the point.
C10_NoTargetRelease ==
    [][(\/ pointer = "native" /\ pointer' = "none" /\ ~IsListening(ZoneOf(hover))
        \/ console' \in {<<"Drag ended">>, <<"Drag ended", "Drag ended">>}
        \/ console' = <<"Touch drag ended">>) =>
         UNCHANGED <<activities, store, dbQueue>>]_vars

\* A native drag of a loaded activity has just ended with dragend alone.
C10_Witness ==
    /\ console \in {<<"Drag ended">>, <<"Drag ended", "Drag ended">>}
    /\ pointer = "none"
    /\ \E i \in Ids : activities[i] # NoAct /\ activities[i] = store[i]
    /\ dbQueue = <<>>

\* C11: a drop whose activity id no longer resolves (the activity was deleted
\* after the drag began) changes no activity, saves nothing, and calls the
\* notifier with a message that is not a success message.
C11_StaleDropReported ==
    [][(/\ pointer = "native"
        /\ dataTransfer \in Ids
        /\ activities[dataTransfer] = NoAct
        /\ console' \in {<<"Dropping activity", "Drag ended">>,
                        <<"Dropping activity", "Drag ended", "Drag ended">>})
       => /\ UNCHANGED <<activities, store, dbQueue>>
          /\ \E k \in 1..Len(toasts') : toasts'[k].kind # "success"]_vars

\* C12: the request that begins the recompute of a drop (loadTripActivities)
\* is made only in the step in which that drop's saveActivity resolved: the
\* oldest request in flight was the drop's put, and the store now holds what
\* it carried.
C12_RecomputeAfterSave ==
    [][(/\ dbQueue' # <<>>
        /\ dbQueue' # dbQueue
        /\ (dbQueue = <<>> \/ dbQueue' # Tail(dbQueue))
        /\ dbQueue'[Len(dbQueue')].req = "getAll"
        /\ IsDrop(dbQueue'[Len(dbQueue')]))
       => LET load == dbQueue'[Len(dbQueue')]
          IN  /\ dbQueue # <<>>
              /\ dbQueue[1].req = "put"
              /\ dbQueue[1].h = load.h
              /\ dbQueue[1].id = load.id
              /\ dbQueue[1].zone = load.zone
              /\ store'[load.id] = dbQueue[1].val
              /\ dbQueue' = Append(Tail(dbQueue), load)]_vars

\* The recompute of a drop is in flight, the drop's save in the store.
C12_Witness ==
    /\ dbQueue # <<>>
    /\ dbQueue[1].req = "getAll"
    /\ IsDrop(dbQueue[1])
    /\ store[dbQueue[1].id].source \in {"bank", "calendar"}
    /\ store[dbQueue[1].id] = activities[dbQueue[1].id]

C15_ExclusiveHighlight ==
    isDragging => Cardinality(highlight) <= 1

\* C16: for the displayed date and the start and end of every activity, on
\* every host, parseDateFromStorage(formatDateForStorage(d)) is local
\* midnight of the local year, month and day of d, and parsing the key on a
\* host of any other UTC offset gives a date with the same key.
C16_DateKeyRoundTrip ==
    LET dates == {currentDate}
                   \cup {activities[i].start : i \in Ids}
                   \cup {activities[i].end : i \in Ids}
    IN  \A d \in dates \ {Null} :
            LET key == formatDateForStorage(d, tz)
                r   == parseDateFromStorage(key, tz)
            IN  /\ getFullYear(r, tz) = getFullYear(d, tz)
                /\ getMonth(r, tz) = getMonth(d, tz)
                /\ getDate(r, tz) = getDate(d, tz)
                /\ getHours(r, tz) = 0
                /\ getMinutes(r, tz) = 0
                /\ r <= d
                /\ d < r + 1440
                /\ \A z2 \in Offsets :
                       formatDateForStorage(parseDateFromStorage(key, z2), z2) = key

\* On a host west of UTC, after 9 PM local time, a drop on a slot of the
\* displayed day went through the key of that day and scheduled the activity
\* on it.
C16_Witness ==
    /\ tz < 0
    /\ getHours(currentDate, tz) >= 21
    /\ console \in {<<"Dropping activity", "Drag ended">>,
                   <<"Dropping activity", "Drag ended", "Drag ended">>}
    /\ activities["a1"].start # Null
    /\ formatDateForStorage(activities["a1"].start, tz) = formatDateForStorage(currentDate, tz)
    /\ parseDateFromStorage(formatDateForStorage(currentDate, tz), tz) <= activities["a1"].start

\* C17: for a candidate with start and end, detectTimeConflicts returns, in
\* the order of the list, exactly the activities of the list that have start
\* and end, another id than the candidate, and an interval with
\* candidate.start < end and candidate.end > start; an activity that only
\* touches the candidate at an endpoint is not returned, an activity inside
\* the candidate's interval is, and an empty list gives an empty result.
C17_DetectTimeConflicts ==
    (resolving = "detected" /\ newActivity.start # Null /\ newActivity.end # Null)
    => LET existing == conflictingActivities
           Overlaps(o) ==
               /\ o.start # Null
               /\ o.end # Null
               /\ o.id # newActivity.id
               /\ newActivity.start < o.end
               /\ newActivity.end > o.start
           sel == {k \in 1..Len(existing) : Overlaps(existing[k])}
           Nth(n) == CHOOSE k \in sel : Cardinality({j \in sel : j <= k}) = n
       IN  /\ Len(conflicts) = Cardinality(sel)
           /\ \A n \in 1..Len(conflicts) : conflicts[n] = existing[Nth(n)]
           /\ \A k \in 1..Len(existing) :
                  LET o == existing[k]
                  IN  /\ (o.start = newActivity.end \/ o.end = newActivity.start)
                           => \A n \in 1..Len(conflicts) : conflicts[n] # o
                      /\ (/\ o.start # Null
                           /\ o.id # newActivity.id
                           /\ newActivity.start <= o.start
                           /\ o.start < o.end
                           /\ o.end <= newActivity.end)
                           => \E n \in 1..Len(conflicts) : conflicts[n] = o
           /\ existing = <<>> => conflicts = <<>>

\* Of two activities given, the second only is returned: the first touches
\* the candidate at its end, the second lies inside the candidate's hour.
C17_Witness ==
    /\ resolving = "detected"
    /\ attempts = 0
    /\ newActivity.start = 540
    /\ newActivity.end = 600
    /\ Len(conflictingActivities) = 2
    /\ conflictingActivities[1].start = newActivity.end
    /\ conflicts = <<conflictingActivities[2]>>
    /\ conflicts[1].start > newActivity.start
    /\ conflicts[1].end < newActivity.end

\* C18: resolveTimeConflict returns the candidate moved later by k times 15
\* minutes, its duration kept, for the smallest k of 0..20 at which
\* detectTimeConflicts finds nothing, after exactly k shifts; it throws only
\* when there is no such k in 0..20.
C18_SmallestShift ==
    LET Shifted(k) ==
            IF calledWith.start = Null \/ calledWith.end = Null THEN calledWith
            ELSE [calledWith EXCEPT !.start = calledWith.start + k * ShiftMinutes,
                                    !.end = calledWith.end + k * ShiftMinutes]
        Free(k) == detectTimeConflicts(Shifted(k), conflictingActivities) = <<>>
    IN  /\ resolving = "returned"
            => \E k \in 0..maxAttempts :
                   /\ Free(k)
                   /\ \A j \in 0..(k - 1) : ~Free(j)
                   /\ newActivity = Shifted(k)
                   /\ attempts = k
        /\ resolving = "thrown" => \A k \in 0..maxAttempts : ~Free(k)

\* C19: resolveTimeConflict makes at most 20 shifts and then returns or
\* throws.
C19_Terminates ==
    /\ [](attempts <= maxAttempts)
    /\ <>(resolving \in {"returned", "thrown"})

\* On a booked day the call has thrown after 20 shifts.
C19_Witness ==
    /\ resolving = "thrown"
    /\ attempts = maxAttempts
    /\ \E k \in 1..Len(conflictingActivities) :
           /\ conflictingActivities[k].start = 0
           /\ conflictingActivities[k].end = 1440

\* C20: when resolveTimeConflict has thrown, the activity it was given has
\* the start and end it was called with, and so has its record in the store.
C20_FailureLeavesCandidate ==
    resolving = "thrown"
    => /\ newActivity.start = calledWith.start
       /\ newActivity.end = calledWith.end
       /\ store[newActivity.id].start = calledWith.start
       /\ store[newActivity.id].end = calledWith.end

\* C21: calculateActivityPositions takes the activities in input order, and
\* the column of each positioned activity is the smallest number from 0 that
\* is not the column of an activity positioned before it whose interval
\* intersects its own.
C21_SmallestFreeColumn ==
    LET Intersects(a, b) == a.start < b.end /\ a.end > b.start
        done == SelectSeq(SubSeq(layoutInput, 1, layoutIndex),
                          LAMBDA a : a.start # Null /\ a.end # Null)
    IN  /\ Len(positioned) = Len(done)
        /\ \A n \in 1..Len(positioned) :
               LET used == {positioned[k].column :
                               k \in {j \in 1..(n - 1) :
                                         Intersects(positioned[n].activity,
                                                    positioned[j].activity)}}
               IN  /\ positioned[n].activity = done[n]
                   /\ positioned[n].column \notin used
                   /\ \A c \in 0..(positioned[n].column - 1) : c \in used

\* C22: when the call was given two activities of the same interval, they
\* have the columns 0 and 1 and both have totalColumns 2.
C22_IdenticalIntervals ==
    (/\ layoutIndex = Len(layoutInput)
     /\ Len(layoutInput) = 2
     /\ layoutInput[1].start # Null
     /\ layoutInput[1].end # Null
     /\ layoutInput[1].id # layoutInput[2].id
     /\ layoutInput[1].start = layoutInput[2].start
     /\ layoutInput[1].end = layoutInput[2].end)
    => /\ Len(positioned) = 2
       /\ {positioned[1].column, positioned[2].column} = {0, 1}
       /\ positioned[1].totalColumns = 2
       /\ positioned[2].totalColumns = 2

\* C30: no two positioned activities whose intervals intersect have the same
\* column, and the column of every positioned activity is less than its
\* totalColumns.
C30_ColumnsDisjoint ==
    /\ \A m \in 1..Len(positioned), n \in 1..Len(positioned) :
           (/\ m < n
            /\ positioned[m].activity.start < positioned[n].activity.end
            /\ positioned[m].activity.end > positioned[n].activity.start)
           => positioned[m].column # positioned[n].column
    /\ \A n \in 1..Len(positioned) :
           /\ positioned[n].column >= 0
           /\ positioned[n].column < positioned[n].totalColumns

\* Three activities were positioned, each intersecting the one before it.
C30_Witness ==
    /\ layoutIndex = Len(layoutInput)
    /\ Len(positioned) = 3
    /\ \A n \in 2..3 :
           /\ positioned[n - 1].activity.start < positioned[n].activity.end
           /\ positioned[n - 1].activity.end > positioned[n].activity.start
    /\ positioned[3].column = 2

\* C24: navigateNext and navigatePrevious leave the view, keep the local
\* time of day, and move the displayed date by one day in day view, by
\* seven days in week view, and in month view to the same day of the next or
\* previous calendar month, or, when that month is shorter, as many days
\* into the month after it as the day exceeds its length.
C24_NavigateSteps ==
    [][LET Moved(dir) ==
               LET from   == DayToCivil(LocalDay(currentDate, tz))
                   to     == DayToCivil(LocalDay(currentDate', tz))
                   months == from[1] * 12 + (from[2] - 1) + dir
                   y      == months \div 12
                   m      == (months % 12) + 1
                   len    == DaysInMonth(y, m)
               IN  /\ currentView' = currentView
                   /\ LocalTimeOfDay(currentDate', tz) = LocalTimeOfDay(currentDate, tz)
                   /\ currentView = "day"
                           => LocalDay(currentDate', tz) = LocalDay(currentDate, tz) + dir
                   /\ currentView = "week"
                           => LocalDay(currentDate', tz) = LocalDay(currentDate, tz) + 7 * dir
                   /\ currentView = "month"
                           => IF from[3] <= len THEN to = <<y, m, from[3]>>
                              ELSE to = <<(months + 1) \div 12, ((months + 1) % 12) + 1,
                                          from[3] - len>>
       IN  (NavigateNext => Moved(1)) /\ (NavigatePrevious => Moved(-1))]_vars

\* In month view the 31st of January was left for February, which has no
\* 31st: the 3rd of March is displayed.
C24_Witness ==
    /\ currentView = "month"
    /\ DayToCivil(LocalDay(today, tz)) = <<2026, 1, 31>>
    /\ DayToCivil(LocalDay(currentDate, tz)) = <<2026, 3, 3>>
    /\ ops = 1

\* C25: a step shows a success toast of a drop ("Activity scheduled",
\* "Activity moved to bank", "scheduled for") only when it completes the
\* loadTripActivities that follows the resolved saveActivity of that drop; a
\* drop whose save was rejected, or whose id was of no activity, shows none.
C25_SuccessOnlyAfterSave ==
    [][(\E k \in 1..Len(toasts') :
            toasts'[k] \in {Toast("Activity scheduled", "success"),
                            Toast("Activity moved to bank", "success"),
                            Toast("scheduled for", "success")})
       => /\ dbQueue # <<>>
          /\ dbQueue[1].req = "getAll"
          /\ dbQueue[1].h \in {"toCalendar", "toBank"}]_vars

\* C26: whenever no operation is awaiting the store (every load, form
\* submit, delete and drop begun has completed, its save resolved or
\* rejected), app.bankActivities lists exactly the activities of
\* app.activities whose source is "bank".
C26_BankIsBankSource ==
    dbQueue = <<>> => bankActivities = {i \in Ids : activities[i].source = "bank"}

\* C28: the step that completes a gesture (a native drag released or ended,
\* a finger lifted or the touch cancelled) runs a drop handler at most once
\* and makes at most one request to the store, a put, however many times
\* setupDragElement added the drag and touch listeners to the source element.
C28_OneDropOneSave ==
    [][(pointer # "none" /\ pointer' = "none") =>
         /\ Cardinality({k \in DOMAIN console' : console'[k] = "Dropping activity"}) <= 1
         /\ \/ dbQueue' = dbQueue
            \/ /\ Len(dbQueue') = Len(dbQueue) + 1
               /\ SubSeq(dbQueue', 1, Len(dbQueue)) = dbQueue
               /\ dbQueue'[Len(dbQueue')].req = "put"]_vars

\* The element of a scheduled activity, which carries the listeners of
\* setupDragElement twice, was dragged and dropped: dragend ran twice, the
\* drop handler once, and one put is on its way.
C28_Witness ==
    /\ console = <<"Dropping activity", "Drag ended", "Drag ended">>
    /\ pointer = "none"
    /\ Len(dbQueue) = 1
    /\ dbQueue[1].req = "put"

\* C29: when two drops have overlapped and the saves of both have resolved,
\* then once both drops have completed (nothing is awaiting the store and no
\* drag is under way) app.activities holds what the store holds: the same
\* ids with the same start, end and source.
C29_MemoryEqualsStore ==
    (dbQueue = <<>> /\ pointer = "none") => activities = store

\* C23: every element a load has just positioned in day or week view has
\* top = max(0, minutes from 06:00 to the start's time of day) / 60 x slot
\* height and height = max(minimum, (end - start) in minutes / 60 x slot
\* height), the slot height being 60 px (50 px in day view on a narrow
\* window) and the minimum 30 px in day view and 20 px in week view; an
\* activity that ends on the next day is no exception.  Sixtieths of a pixel.
C23_TopAndHeight ==
    [][(dbQueue # <<>> /\ dbQueue[1].req = "getAll") =>
         \A i \in Ids :
            style'[i] # NoStyle =>
                LET a          == activities'[i]
                    slotHeight == IF currentView = "day" /\ isMobile THEN 50 ELSE 60
                    minimum    == IF currentView = "day" THEN 30 ELSE 20
                    sinceSix   == ((a.start + tz) % 1440) - 360
                    top        == IF sinceSix > 0 THEN sinceSix * slotHeight ELSE 0
                    byDuration == (a.end - a.start) * slotHeight
                    height     == IF byDuration > minimum * 60
                                  THEN byDuration ELSE minimum * 60
                IN  style'[i] = [top |-> top, height |-> height]]_vars

\* C27: when the load that follows a drop on a time slot of the day view
\* resolves, the activity is among those of the slot's date and its element
\* is positioned at the slot's index (0 for 06:00, 18 for the midnight slot)
\* times the slot height.  Sixtieths of a pixel.
C27_DrawnInItsSlot ==
    [][(/\ dbQueue # <<>>
        /\ dbQueue[1].req = "getAll"
        /\ dbQueue[1].h = "toCalendar"
        /\ dbQueue[1].zone.kind = "slot"
        /\ currentView = "day"
        /\ store[dbQueue[1].id].source = "calendar"
        /\ activities' = store) =>
         LET id         == dbQueue[1].id
             slot       == CHOOSE s \in DOMAIN generateTimeSlots :
                               generateTimeSlots[s].time = dbQueue[1].zone.time
             slotHeight == IF isMobile THEN 50 ELSE 60
         IN  /\ OnDate(activities'[id], currentDate, tz)
             /\ id \in calendarDom'
             /\ style'[id].top = (slot - 1) * 60 * slotHeight]_vars

====
